---- MODULE Spec2Model ----
(***************************************************************************)
(* Model of the MindDrive agent core: the task-plan tracker, the task      *)
(* orchestrator, the agent tool loop, the approval registry and the agent  *)
(* service (chat turns and approval resolution).                           *)
(***************************************************************************)
EXTENDS Integers, Sequences, FiniteSets, TLC

\* ------------------------------------------------------------------------
\* Bounds of the model
\* ------------------------------------------------------------------------
MaxSteps == 3
MaxPlanSteps == 2
MaxRounds == 1
MaxApprovals == 1
MaxResolvers == 2
ExecCap == 2

\* ------------------------------------------------------------------------
\* Program constants
\* ------------------------------------------------------------------------
MAX_TOOL_CALLS_PER_TURN == 10

\* ------------------------------------------------------------------------
\* Fixed sets of the program
\* ------------------------------------------------------------------------
AgentTypes == {"drive", "document", "search"}

\* what the planning model may put in a step's agentType field
LlmStepTypes == AgentTypes \cup {"bogus"}

TerminalStatuses == {"completed", "failed", "skipped"}

Users == {"alice", "bob"}

\* the user who opens the conversation that is followed
FirstUser == "alice"

\* the userId value the model may put into a tool call's arguments: the id
\* of a user (another one than the user who chats), or none
ModelUserIds == {"bob", "none"}

Tools == {"list_files", "delete_file"}

ApprovalIds == 1..MaxApprovals

Resolvers == 1..MaxResolvers

VARIABLES
    tp,     \* tracker specification: the plan value the caller holds
    tx,     \* tracker specification: position of a running executePlan call
    conv,   \* the stored conversation (NoConv before its first save)
    reg,    \* the gateway's approval registry, by approval id
    chat,   \* the chat turn in flight (one turn at a time per conversation)
    res,    \* the resolveApproval calls in flight
    execCount,  \* history: tool invocations made for each approval id
    acted,  \* history: resolveApproval has finished acting on the id
    last,   \* history: the last gateway check / tool invocation / model failure
    fx      \* function specifications: the input drawn and the result

trackerVars == <<tp, tx>>

serviceVars == <<conv, reg, chat, res, execCount, acted, last>>

vars == <<tp, tx, conv, reg, chat, res, execCount, acted, last, fx>>

\* ------------------------------------------------------------------------
\* Task planner: generateTaskPlan and TaskPlanTracker
\* ------------------------------------------------------------------------

\* the absent plan (null / undefined)
NoPlan == [steps |-> <<>>, currentStep |-> 0, isComplete |-> FALSE]

HasPlan(plan) == Len(plan.steps) > 0

\* activePlan && !activePlan.isComplete
PlanOpen(plan) == HasPlan(plan) /\ ~plan.isComplete

\* generateTaskPlan, after the model's answer has been parsed: stepTypes is
\* the agentType field of each returned step; no plan when no step came back
generateTaskPlan(stepTypes) ==
    IF Len(stepTypes) = 0
    THEN NoPlan
    ELSE [steps |-> [i \in 1..Len(stepTypes) |->
                        [status    |-> "pending",
                         agentType |-> IF stepTypes[i] \in AgentTypes
                                       THEN stepTypes[i] ELSE "undef",
                         result    |-> "none",
                         error     |-> "none"]],
          currentStep |-> 1,
          isComplete  |-> FALSE]

\* steps.find((s) => s.id === plan.currentStep): ids are 1..n, 0 when absent
FindCurrent(plan) ==
    IF plan.currentStep \in 1..Len(plan.steps) THEN plan.currentStep ELSE 0

\* steps.find((s) => s.status === "pending"): the first pending id, 0 if none
FindNextPending(steps) ==
    IF \E i \in 1..Len(steps) : steps[i].status = "pending"
    THEN CHOOSE i \in 1..Len(steps) :
            /\ steps[i].status = "pending"
            /\ \A j \in 1..(i - 1) : steps[j].status # "pending"
    ELSE 0

\* mutant of Advance: the pointer is never moved to the next pending step
AdvanceStuck(plan, steps) ==
    [plan EXCEPT !.steps = steps,
                 !.isComplete = (FindNextPending(steps) = 0)]

\* the common tail of complete/fail/skip: advance currentStep or finish
Advance(plan, steps) ==
    LET nextPending == FindNextPending(steps) IN
    IF nextPending # 0
    THEN [plan EXCEPT !.steps = steps, !.currentStep = nextPending]
    ELSE [plan EXCEPT !.steps = steps, !.isComplete = TRUE]

startCurrentStep(plan) ==
    LET c == FindCurrent(plan) IN
    IF c # 0
    THEN [plan EXCEPT !.steps[c].status = "in-progress"]
    ELSE plan

\* mutant of completeCurrentStep: the step is marked, the plan's pointer
\* and isComplete are left as they are
completeCurrentStepNoAdvance(plan, result) ==
    LET c == FindCurrent(plan)
    IN IF c # 0
       THEN [plan EXCEPT !.steps[c].status = "completed",
                         !.steps[c].result = result]
       ELSE plan

completeCurrentStep(plan, result) ==
    LET c == FindCurrent(plan)
        steps == IF c # 0
                 THEN [plan.steps EXCEPT ![c].status = "completed",
                                         ![c].result = result]
                 ELSE plan.steps
    IN Advance(plan, steps)

\* mutant of failCurrentStep: the error is recorded but the status is not set
failCurrentStepNoStatus(plan, error) ==
    LET c == FindCurrent(plan)
        steps == IF c # 0
                 THEN [plan.steps EXCEPT ![c].error = error]
                 ELSE plan.steps
    IN Advance(plan, steps)

failCurrentStep(plan, error) ==
    LET c == FindCurrent(plan)
        steps == IF c # 0
                 THEN [plan.steps EXCEPT ![c].status = "failed",
                                         ![c].error = error]
                 ELSE plan.steps
    IN Advance(plan, steps)

skipCurrentStep(plan, reason) ==
    LET c == FindCurrent(plan)
        steps == IF c # 0
                 THEN [plan.steps EXCEPT ![c].status = "skipped",
                                         ![c].result = reason]
                 ELSE plan.steps
    IN Advance(plan, steps)

\* TaskOrchestrator.needsOrchestration
needsOrchestration(plan) ==
    LET types == {plan.steps[i].agentType : i \in 1..Len(plan.steps)}
                    \ {"undef"}
    IN Cardinality(types) > 1 \/ Len(plan.steps) > 1

\* ------------------------------------------------------------------------
\* Capability gateway: policy and approval registry
\* ------------------------------------------------------------------------
NoRequest ==
    [status |-> "absent", owner |-> "none", tool |-> "none",
     argUser |-> "none", stale |-> FALSE]

Consumed ==
    [status |-> "consumed", owner |-> "none", tool |-> "none",
     argUser |-> "none", stale |-> FALSE]

\* static danger policy: reading auto-allows; deleting needs approval, and is
\* always blocked for the search agent
GatewayPolicy(agentType, tool) ==
    IF tool = "list_files" THEN "allow"
    ELSE IF agentType = "search" THEN "block"
    ELSE "approve"

FreeIds(regv) == {id \in ApprovalIds : regv[id].status = "absent"}

\* checkToolPermission: the decision, and the registry after it
checkToolPermission(regv, agentType, tool, userId, argUser) ==
    LET policy == GatewayPolicy(agentType, tool) IN
    IF policy = "allow"
    THEN [allowed |-> TRUE, requiresApproval |-> FALSE, approvalId |-> 0,
          reg |-> regv]
    ELSE IF policy = "block"
    THEN [allowed |-> FALSE, requiresApproval |-> FALSE, approvalId |-> 0,
          reg |-> regv]
    ELSE LET id == CHOOSE i \in FreeIds(regv) : \A j \in FreeIds(regv) : i <= j
         IN [allowed |-> FALSE, requiresApproval |-> TRUE, approvalId |-> id,
             reg |-> [regv EXCEPT ![id] =
                        [status |-> "pending", owner |-> userId,
                         tool |-> tool, argUser |-> argUser,
                         stale |-> FALSE]]]

\* mutant of gatewayResolveApproval: a request that is already approved is
\* handed out again
gatewayResolveApprovalAgain(regv, approvalId, userId, approved) ==
    LET r == regv[approvalId] IN
    IF r.status \notin {"pending", "approved"} \/ r.owner # userId
    THEN [status |-> "null", toolName |-> "none", argUser |-> "none",
          reg |-> regv]
    ELSE IF r.stale
    THEN [status |-> "expired", toolName |-> r.tool, argUser |-> r.argUser,
          reg |-> [regv EXCEPT ![approvalId].status = "expired"]]
    ELSE LET st == IF approved THEN "approved" ELSE "rejected"
         IN [status |-> st, toolName |-> r.tool, argUser |-> r.argUser,
             reg |-> [regv EXCEPT ![approvalId].status = st]]

\* CapabilityGateway.resolveApproval: "null" unless the request is pending
\* and owned by the caller; expired when past validity
gatewayResolveApproval(regv, approvalId, userId, approved) ==
    LET r == regv[approvalId] IN
    IF r.status # "pending" \/ r.owner # userId
    THEN [status |-> "null", toolName |-> "none", argUser |-> "none",
          reg |-> regv]
    ELSE IF r.stale
    THEN [status |-> "expired", toolName |-> r.tool, argUser |-> r.argUser,
          reg |-> [regv EXCEPT ![approvalId].status = "expired"]]
    ELSE LET st == IF approved THEN "approved" ELSE "rejected"
         IN [status |-> st, toolName |-> r.tool, argUser |-> r.argUser,
             reg |-> [regv EXCEPT ![approvalId].status = st]]

\* consumeApproval: the request is removed from the registry
consumeApproval(regv, approvalId) ==
    IF regv[approvalId].status \in {"absent", "consumed"}
    THEN regv
    ELSE [regv EXCEPT ![approvalId] = Consumed]

\* ------------------------------------------------------------------------
\* History of the last event: a tool loop pass, a model failure, the end of
\* a chat turn, a resolveApproval call or its return
\* ------------------------------------------------------------------------
LastNone ==
    [ev |-> "none", caller |-> "none", id |-> 0, outcome |-> "none",
     late |-> FALSE, modelUsers |-> {}, gateUsers |-> {}, callUsers |-> {},
     shouldPlan |-> "none", single |-> FALSE, taskPlan |-> FALSE,
     footer |-> FALSE, withId |-> FALSE, listed |-> FALSE,
     status |-> "none", tool |-> "none", sticky |-> "none"]

Bump(n) == IF n < ExecCap THEN n + 1 ELSE n

\* ------------------------------------------------------------------------
\* The agent tool loop: one requested tool call (runAgentLoop, for body)
\* ------------------------------------------------------------------------
ToolCalls == [name : Tools, argUser : ModelUserIds]

ToolOutcomes == {"ok", "error", "throw"}

\* mutant of LoopInjectUserId: a userId supplied by the model is kept
LoopInjectUserIdKeep(argUser, userId) ==
    IF argUser # "none" THEN argUser ELSE userId

\* args.userId = context.userId
LoopInjectUserId(argUser, userId) == userId

\* mutant of LoopInvokes: a call waiting for approval is invoked as well
LoopInvokesUnlessBlocked(d) == d.allowed \/ d.requiresApproval

\* the branch of the loop body that calls the tool-invocation interface:
\* neither approval-required nor blocked
LoopInvokes(d) ==
    IF ~d.allowed /\ d.requiresApproval THEN FALSE
    ELSE IF ~d.allowed THEN FALSE
    ELSE TRUE

\* inject the caller's id, ask the gateway, invoke the tool when allowed
ToolCallStep(regv, userId, agentType, call, toolOutcome) ==
    LET argUser == LoopInjectUserId(call.argUser, userId)
        d == checkToolPermission(regv, agentType, call.name, userId, argUser)
    IN [reg |-> d.reg,
        invoked |-> LoopInvokes(d),
        decision |-> IF d.allowed THEN "allowed"
                     ELSE IF d.requiresApproval THEN "approval"
                     ELSE "blocked",
        approvalId |-> IF ~d.allowed /\ d.requiresApproval
                       THEN d.approvalId ELSE 0,
        isError |-> IF d.allowed THEN toolOutcome # "ok"
                    ELSE ~d.requiresApproval,
        argUser |-> argUser]

\* ------------------------------------------------------------------------
\* AgentService.resolveApproval
\* ------------------------------------------------------------------------
ResIdle == [pc |-> "idle", id |-> 0, user |-> "none", late |-> FALSE]

\* mutant of ResolveInjectUserId: the tool is called without arguments
ResolveInjectUserIdBare(argUser, userId) == "none"

\* {...result.args, userId}: the userId the tool is called with
ResolveInjectUserId(argUser, userId) == userId

\* mutant of ResolveBranch: an expired request is run like an approved one
ResolveBranchRunsExpired(status) ==
    CASE status = "null" -> "throw"
      [] status = "rejected" -> "rejected"
      [] OTHER -> "call"

\* the branch resolveApproval takes on the gateway's verdict
ResolveBranch(status) ==
    CASE status = "null" -> "throw"
      [] status = "expired" -> "expired"
      [] status = "rejected" -> "rejected"
      [] status = "approved" -> "call"
      [] OTHER -> "unexpected"

\* mutant of AfterApprovedCall: the catch branch forgets consumeApproval
AfterApprovedCallLeak(regv, approvalId, toolOutcome) ==
    IF toolOutcome = "throw" THEN regv ELSE consumeApproval(regv, approvalId)

\* the registry after the approved tool call came back: consumed on success,
\* on an error result and in the catch branch alike
AfterApprovedCall(regv, approvalId, toolOutcome) ==
    consumeApproval(regv, approvalId)

\* resolveApproval up to its first await: the gateway's verdict and every
\* branch that returns without calling the tool
ResolveApprovalCall(r, userId, approvalId, approved) ==
    /\ res[r].pc = "idle"
    /\ LET g == gatewayResolveApproval(reg, approvalId, userId, approved)
           branch == ResolveBranch(g.status)
           returned(outcome) == [LastNone EXCEPT !.ev = "resolved",
                                                 !.caller = userId,
                                                 !.id = approvalId,
                                                 !.outcome = outcome,
                                                 !.status = g.status,
                                                 !.late = acted[approvalId]]
       IN
       IF branch = "throw"
       THEN /\ last' = returned("notfound")
            /\ UNCHANGED <<reg, res, execCount, acted>>
       ELSE IF branch = "expired"
       THEN /\ last' = returned("expired")
            /\ reg' = g.reg
            /\ UNCHANGED <<res, execCount, acted>>
       ELSE IF branch = "rejected"
       THEN /\ last' = returned("rejected")
            /\ reg' = consumeApproval(g.reg, approvalId)
            /\ acted' = [acted EXCEPT ![approvalId] = TRUE]
            /\ UNCHANGED <<res, execCount>>
       ELSE IF branch = "call"
       THEN /\ res' = [res EXCEPT ![r] = [pc |-> "tool", id |-> approvalId,
                                          user |-> userId,
                                          late |-> acted[approvalId]]]
            /\ reg' = g.reg
            /\ execCount' = [execCount EXCEPT
                                ![approvalId] = Bump(execCount[approvalId])]
            /\ last' = [LastNone EXCEPT
                          !.ev = "resolveCall", !.caller = userId,
                          !.id = approvalId, !.late = acted[approvalId],
                          !.status = g.status, !.tool = g.toolName,
                          !.callUsers =
                              {ResolveInjectUserId(g.argUser, userId)}]
            /\ UNCHANGED acted
       ELSE /\ last' = returned("unexpected")
            /\ reg' = g.reg
            /\ UNCHANGED <<res, execCount, acted>>
    /\ UNCHANGED <<conv, chat, trackerVars, fx>>

\* the approved tool call comes back (result, error result, or exception)
ResolveToolReturn(r, toolOutcome) ==
    /\ res[r].pc = "tool"
    /\ reg' = AfterApprovedCall(reg, res[r].id, toolOutcome)
    /\ acted' = [acted EXCEPT ![res[r].id] = TRUE]
    /\ res' = [res EXCEPT ![r] = ResIdle]
    /\ last' = [LastNone EXCEPT
                  !.ev = "resolved", !.caller = res[r].user,
                  !.id = res[r].id, !.late = res[r].late,
                  !.outcome = CASE toolOutcome = "ok" -> "done"
                                [] toolOutcome = "error" -> "toolerror"
                                [] OTHER -> "threw"]
    /\ UNCHANGED <<conv, chat, execCount, trackerVars, fx>>

\* time passes beyond the validity of a pending request
ApprovalGoesStale(approvalId) ==
    /\ reg[approvalId].status = "pending"
    /\ ~reg[approvalId].stale
    /\ reg' = [reg EXCEPT ![approvalId].stale = TRUE]
    /\ last' = LastNone
    /\ UNCHANGED <<conv, chat, res, execCount, acted, trackerVars, fx>>

\* a tool call requested in the loop of some agent run of the user
LoopToolCall(userId, agentType, call, toolOutcome) ==
    /\ GatewayPolicy(agentType, call.name) = "approve" => FreeIds(reg) # {}
    /\ GatewayPolicy(agentType, call.name) # "allow" => toolOutcome = "ok"
    /\ LET s == ToolCallStep(reg, userId, agentType, call, toolOutcome) IN
       /\ reg' = s.reg
       /\ last' = [LastNone EXCEPT
                     !.ev = "loop", !.caller = userId,
                     !.id = s.approvalId,
                     !.outcome = s.decision,
                     !.modelUsers = {call.argUser},
                     !.gateUsers = {s.argUser},
                     !.callUsers = IF s.invoked THEN {s.argUser} ELSE {}]
    /\ UNCHANGED <<conv, chat, res, execCount, acted, trackerVars, fx>>

\* ------------------------------------------------------------------------
\* Agent router (decision only): explicit hint, confident pattern match,
\* sticky conversation type, model classifier, weak pattern, default
\* ------------------------------------------------------------------------
\* mutant of routeToAgent: the pattern match is looked at before the hint
routeToAgentPatternFirst(explicitType, conversationAgentType, topType, topScore, confident, llmDecision) ==
    IF topScore > 0 /\ confident
    THEN [route_to |-> topType, source |-> "pattern",
          confidence |-> "pattern", scored |-> TRUE, classified |-> FALSE]
    ELSE IF explicitType # "undef"
    THEN [route_to |-> explicitType, source |-> "explicit",
          confidence |-> "1", scored |-> TRUE, classified |-> FALSE]
    ELSE IF conversationAgentType # "undef"
    THEN [route_to |-> conversationAgentType, source |-> "conversation",
          confidence |-> "0.9", scored |-> TRUE, classified |-> FALSE]
    ELSE IF llmDecision # "null"
    THEN [route_to |-> llmDecision, source |-> "llm",
          confidence |-> "llm", scored |-> TRUE, classified |-> TRUE]
    ELSE IF topScore > 0
    THEN [route_to |-> topType, source |-> "pattern",
          confidence |-> "pattern or 0.3", scored |-> TRUE,
          classified |-> TRUE]
    ELSE [route_to |-> "drive", source |-> "default",
          confidence |-> "0.2", scored |-> TRUE, classified |-> TRUE]

\* routeToAgent: topType and topScore are the head of the sorted pattern
\* scores, confident says that getConfidence reached the threshold, and
\* llmDecision is what callLlmRouter returns ("null" on any failure);
\* scored / classified tell whether calculatePatternScores / callLlmRouter
\* were called on the way
routeToAgent(explicitType, conversationAgentType, topType, topScore, confident, llmDecision) ==
    IF explicitType # "undef"
    THEN [route_to |-> explicitType, source |-> "explicit",
          confidence |-> "1", scored |-> FALSE, classified |-> FALSE]
    ELSE IF topScore > 0 /\ confident
    THEN [route_to |-> topType, source |-> "pattern",
          confidence |-> "pattern", scored |-> TRUE, classified |-> FALSE]
    ELSE IF conversationAgentType # "undef"
    THEN [route_to |-> conversationAgentType, source |-> "conversation",
          confidence |-> "0.9", scored |-> TRUE, classified |-> FALSE]
    ELSE IF llmDecision # "null"
    THEN [route_to |-> llmDecision, source |-> "llm",
          confidence |-> "llm", scored |-> TRUE, classified |-> TRUE]
    ELSE IF topScore > 0
    THEN [route_to |-> topType, source |-> "pattern",
          confidence |-> "pattern or 0.3", scored |-> TRUE,
          classified |-> TRUE]
    ELSE [route_to |-> "drive", source |-> "default",
          confidence |-> "0.2", scored |-> TRUE, classified |-> TRUE]

\* the messages and classifier answers of this specification: the top
\* pattern type of the message, and what the classifier answers
TopTypes == {"drive", "search"}

Classified == {"search", "null"}

ExplicitTypes == {"undef", "search"}

\* the agent types the router can reach for a hint and a sticky type, over
\* these messages and classifier answers
RouteTargets(explicitType, conversationAgentType) ==
    {routeToAgent(explicitType, conversationAgentType, t, sc, cf, l).route_to :
        t \in TopTypes, sc \in 0..1, cf \in BOOLEAN, l \in Classified}

\* ------------------------------------------------------------------------
\* AgentService.chat, TaskOrchestrator.executePlan and the agent tool loop
\* ------------------------------------------------------------------------
NoConv == [owner |-> "none", agentType |-> "none", plan |-> NoPlan,
           pausedOn |-> {}, pausedStep |-> 0, active |-> FALSE,
           messages |-> 0]

\* a saved turn appends the user message and the assistant message; the
\* stored messages of a conversation are counted up to those of one turn
MessagesPerTurn == 2

\* the isActive flag of a conversation that was created without one
isActiveDefault == TRUE

\* mutant of getConversationOrThrow: the owner is not part of the query
getConversationAnyOwner(c, userId) == c # NoConv /\ c.active

\* getConversationOrThrow: TRUE when findOne({_id, userId, isActive: true})
\* finds the conversation, FALSE when it throws NOT_FOUND
getConversationOrThrow(c, userId) ==
    c # NoConv /\ c.owner = userId /\ c.active

\* mutant of SoftDelete: the document is removed
SoftDeleteRemoves(c) == NoConv

\* deleteConversation: conversation.isActive = false, then save
SoftDelete(c) == [c EXCEPT !.active = FALSE]

ChatIdle ==
    [pc |-> "idle", user |-> "none", agentType |-> "none",
     runType |-> "none", plan |-> NoPlan, orch |-> FALSE, i |-> 0,
     iter |-> 0, hasErrors |-> FALSE, approvals |-> {},
     shouldPlan |-> "none"]

\* what the planning model answers in this specification: steps that name
\* none of the three agent types, so that each runs with the turn's type
PlanStepTypes == {"bogus"}

PlanStepTypeSeqs == UNION {[1..n -> PlanStepTypes] : n \in 0..MaxPlanSteps}

\* selectAgent: unknown types fall back to the drive agent
selectAgent(type) == IF type \in {"document", "search"} THEN type ELSE "drive"

\* chat, lines 325-381: append the assistant message, store summaries and
\* plan, save the conversation and return the response; the save writes the
\* fields the turn has set (the user message and the assistant message among
\* them) and leaves isActive as it is stored; pausedStep is the
\* step at which executePlan broke out of its loop (0 when it did not) and
\* pausedOn the approvals that step was waiting for
Persist(c, pausedStep) ==
    /\ conv' = [owner |-> c.user, agentType |-> c.agentType,
                plan |-> c.plan,
                active |-> IF conv = NoConv THEN isActiveDefault
                           ELSE conv.active,
                messages |-> MessagesPerTurn,
                pausedStep |-> pausedStep,
                pausedOn |-> IF pausedStep # 0 THEN c.approvals
                             ELSE IF PlanOpen(conv.plan)
                             THEN conv.pausedOn
                             ELSE {}]
    /\ chat' = ChatIdle

\* executePlan's for loop from step i on, up to the next agent run: steps
\* that are not pending are passed over, a step without a registered agent
\* is failed, the first step with an agent is started; pc is "done" when
\* the loop is over
RECURSIVE ExecFrom(_, _)
ExecFrom(c, i) ==
    IF i > Len(c.plan.steps)
    THEN [c EXCEPT !.pc = "done", !.i = i]
    ELSE IF c.plan.steps[i].status # "pending"
    THEN ExecFrom(c, i + 1)
    ELSE LET st == c.plan.steps[i].agentType
             agentType == IF st # "undef" THEN st ELSE c.agentType
         IN IF agentType \notin AgentTypes
            THEN ExecFrom([c EXCEPT !.plan = failCurrentStep(c.plan, "error")],
                          i + 1)
            ELSE [c EXCEPT !.plan = startCurrentStep(c.plan),
                           !.pc = "llm", !.i = i, !.iter = 0,
                           !.hasErrors = FALSE, !.approvals = {},
                           !.runType = agentType]

\* the turn goes on with the next agent run, or executePlan has returned
\* and chat saves the conversation
Continue(d) ==
    IF d.pc = "done"
    THEN Persist(d, 0)
    ELSE chat' = d /\ UNCHANGED conv

\* executePlan after agent.run returned: the step is completed
StepAfterRun(plan, approvals) == completeCurrentStep(plan, "result")

\* agent.run returned to its caller, c being the turn at that moment
RunReturn(c) ==
    IF c.orch
    THEN LET done == [c EXCEPT !.plan = StepAfterRun(c.plan, c.approvals)]
         IN IF c.approvals # {}
            THEN Persist(done, c.i)
            ELSE Continue(ExecFrom(done, c.i + 1))
    ELSE LET p == IF PlanOpen(c.plan)
                  THEN IF c.hasErrors
                       THEN failCurrentStep(c.plan, "error")
                       ELSE completeCurrentStep(c.plan, "result")
                  ELSE c.plan
         IN Persist([c EXCEPT !.plan = p], 0)

\* chat, lines 325-329 and 368-370: the progress footer is appended for a
\* plan of more than one step, and the response carries the plan if any
ResponseOf(activePlan) ==
    [taskPlan |-> HasPlan(activePlan),
     footer |-> HasPlan(activePlan) /\ Len(activePlan.steps) > 1]

\* the history entry of an action of turn c that may have ended the turn:
\* who called, what shouldPlanTask said ("skipped" when it was not asked),
\* whether a single agent run handled the message, and the response
EndOfTurn(c) ==
    IF chat'.pc = "idle"
    THEN [LastNone EXCEPT
            !.ev = "chatDone", !.caller = c.user,
            !.shouldPlan = c.shouldPlan, !.single = ~c.orch,
            !.taskPlan = ResponseOf(conv'.plan).taskPlan,
            !.footer = ResponseOf(conv'.plan).footer]
    ELSE LastNone

\* mutant of planningAllowed: a plan may be generated in every turn
planningAlways(activePlan) == TRUE

\* if (!activePlan || activePlan.isComplete): task planning is tried only
\* when the conversation has no plan or a complete one
planningAllowed(activePlan) == ~HasPlan(activePlan) \/ activePlan.isComplete

\* mutant of conversationAgentType: the stored type is always passed on
conversationAgentTypeAlways(c) == c.agentType

\* the conversationAgentType chat passes to routeToAgent: the conversation's
\* stored type while its plan is incomplete, undefined when the plan is
\* absent or complete
conversationAgentType(c) == IF ~PlanOpen(c.plan) THEN "undef" ELSE c.agentType

\* chat up to the first agent run: load or create the conversation, route,
\* plan, and choose between the orchestrator and a single agent
ChatBegin(userId, withId, explicitType, planNeeded, stepTypes) ==
    /\ chat.pc = "idle"
    /\ withId \/ (conv = NoConv /\ userId = FirstUser)
    /\ UNCHANGED <<reg, res, execCount, acted, trackerVars, fx>>
    /\ IF withId /\ ~getConversationOrThrow(conv, userId)
       THEN /\ chat' = ChatIdle
            /\ UNCHANGED conv
            /\ last' = [LastNone EXCEPT !.ev = "chatNotFound",
                                        !.caller = userId,
                                        !.outcome = "notfound",
                                        !.withId = TRUE]
       ELSE LET stored == conv.plan
                previousPlanDone == planningAllowed(stored)
                sticky == conversationAgentType(conv)
                generated == IF previousPlanDone /\ planNeeded
                             THEN generateTaskPlan(stepTypes) ELSE NoPlan
                activePlan == IF HasPlan(generated) THEN generated
                              ELSE stored
                open == PlanOpen(activePlan)
                useOrch == open /\ needsOrchestration(activePlan)
                asked == IF ~previousPlanDone THEN "skipped"
                         ELSE IF planNeeded THEN "true" ELSE "false"
            IN /\ IF previousPlanDone /\ planNeeded THEN TRUE
                  ELSE stepTypes = <<>>
               /\ \E target \in RouteTargets(explicitType, sticky) :
                    LET c == [ChatIdle EXCEPT
                                !.user = userId,
                                !.agentType = target,
                                !.orch = useOrch,
                                !.plan = activePlan,
                                !.shouldPlan = asked]
                    IN IF useOrch
                       THEN Continue(ExecFrom(c, 1))
                       ELSE /\ chat' = [c EXCEPT
                                   !.plan = IF open
                                            THEN startCurrentStep(activePlan)
                                            ELSE activePlan,
                                   !.pc = "llm",
                                   !.runType = selectAgent(target)]
                            /\ UNCHANGED conv
               /\ last' = IF chat'.pc = "idle"
                          THEN [EndOfTurn([ChatIdle EXCEPT
                                             !.user = userId,
                                             !.orch = useOrch,
                                             !.shouldPlan = asked])
                                  EXCEPT !.withId = withId,
                                         !.sticky = sticky]
                          ELSE [LastNone EXCEPT !.ev = "chatStarted",
                                                !.caller = userId,
                                                !.withId = withId,
                                                !.sticky = sticky]

\* mutant of RunThrew: executePlan has no catch around agent.run, the error
\* leaves chat whoever runs the agent
RunThrewNoCatch(c) == [raised |-> TRUE, chat |-> ChatIdle]

\* agent.run threw, c being the turn at that moment: executePlan catches the
\* error, fails the step and goes on with the loop; a single agent run lets
\* it escape from chat before anything is saved
RunThrew(c) ==
    IF c.orch
    THEN [raised |-> FALSE,
          chat |-> ExecFrom([c EXCEPT
                               !.plan = failCurrentStep(c.plan, "error")],
                            c.i + 1)]
    ELSE [raised |-> TRUE, chat |-> ChatIdle]

\* the model backend is unavailable (no API key, or a non-OK response):
\* callLlm throws and the error leaves runAgentLoop and run
AgentLlmUnavailable ==
    /\ chat.pc = "llm"
    /\ LET t == RunThrew(chat) IN
       /\ IF t.raised
          THEN chat' = t.chat /\ UNCHANGED conv
          ELSE Continue(t.chat)
       /\ last' = [LastNone EXCEPT
                     !.ev = "llmDown", !.caller = chat.user,
                     !.outcome = IF t.raised THEN "raised" ELSE "stepFailed"]
    /\ UNCHANGED <<reg, res, execCount, acted, trackerVars, fx>>

\* the model gives its final answer (or no choice at all): the run returns
AgentLlmFinal ==
    /\ chat.pc = "llm"
    /\ RunReturn([chat EXCEPT !.iter = chat.iter + 1])
    /\ last' = EndOfTurn(chat)
    /\ UNCHANGED <<reg, res, execCount, acted, trackerVars, fx>>

\* the model requests a tool (the answers of this specification carry one
\* tool call): the call is injected, checked and, when allowed, invoked;
\* then the loop goes round, or ends at the cap
AgentLlmTools(call, toolOutcome) ==
    /\ chat.pc = "llm"
    /\ chat.iter < MaxRounds
    /\ GatewayPolicy(chat.runType, call.name) = "approve" => FreeIds(reg) # {}
    /\ GatewayPolicy(chat.runType, call.name) # "allow" => toolOutcome = "ok"
    /\ LET s == ToolCallStep(reg, chat.user, chat.runType, call, toolOutcome)
           c == [chat EXCEPT
                   !.iter = chat.iter + 1,
                   !.hasErrors = chat.hasErrors \/ s.isError,
                   !.approvals = IF s.approvalId # 0
                                 THEN chat.approvals \cup {s.approvalId}
                                 ELSE chat.approvals]
       IN /\ reg' = s.reg
          /\ IF c.iter < MAX_TOOL_CALLS_PER_TURN
             THEN chat' = c /\ UNCHANGED conv
             ELSE RunReturn(c)
          /\ last' = [LastNone EXCEPT
                        !.ev = "loop", !.caller = chat.user,
                        !.id = s.approvalId,
                        !.outcome = s.decision,
                        !.modelUsers = {call.argUser},
                        !.gateUsers = {s.argUser},
                        !.callUsers = IF s.invoked THEN {s.argUser} ELSE {}]
    /\ UNCHANGED <<res, execCount, acted, trackerVars, fx>>

\* getConversation: the conversation, or NOT_FOUND
GetConversation(userId) ==
    /\ last' = [LastNone EXCEPT
                  !.ev = "get", !.caller = userId, !.withId = TRUE,
                  !.outcome = IF getConversationOrThrow(conv, userId)
                              THEN "found" ELSE "notfound"]
    /\ UNCHANGED <<conv, reg, chat, res, execCount, acted, trackerVars, fx>>

\* deleteConversation: NOT_FOUND, or the conversation is marked inactive
DeleteConversation(userId) ==
    /\ IF getConversationOrThrow(conv, userId)
       THEN /\ conv' = SoftDelete(conv)
            /\ last' = [LastNone EXCEPT
                          !.ev = "delete", !.caller = userId,
                          !.withId = TRUE, !.outcome = "deleted"]
       ELSE /\ UNCHANGED conv
            /\ last' = [LastNone EXCEPT
                          !.ev = "delete", !.caller = userId,
                          !.withId = TRUE, !.outcome = "notfound"]
    /\ UNCHANGED <<reg, chat, res, execCount, acted, trackerVars, fx>>

\* listConversations: find({userId, isActive: true}); listed says whether
\* the conversation is among the items
ListConversations(userId) ==
    /\ last' = [LastNone EXCEPT
                  !.ev = "list", !.caller = userId,
                  !.listed = (conv # NoConv /\ conv.owner = userId
                                /\ conv.active)]
    /\ UNCHANGED <<conv, reg, chat, res, execCount, acted, trackerVars, fx>>

InitService ==
    /\ conv = NoConv
    /\ reg = [id \in ApprovalIds |-> NoRequest]
    /\ chat = ChatIdle
    /\ res = [r \in Resolvers |-> ResIdle]
    /\ execCount = [id \in ApprovalIds |-> 0]
    /\ acted = [id \in ApprovalIds |-> FALSE]
    /\ last = LastNone

\* no function is under study
FxIdle == [pc |-> "idle"]

\* no executePlan call has been made: besides the position in the loop, tx
\* keeps the plan the call was entered with, the steps an agent was run for
\* (in the order of the runs), the steps whose run threw, the steps that
\* had no agent, the steps whose approvals are in allPendingApprovals, the
\* step the call paused at (0 for none) and whether the call raised; and
\* the steps whose run had the gateway create an approval request
\* (created), the steps whose run's toolCalls were pushed to allToolCalls
\* (toolCalls) and the steps whose run executed a tool call and then threw
\* (executed)
TxIdle ==
    [pc |-> "idle", i |-> 0, entry |-> NoPlan, ran |-> <<>>, threw |-> {},
     noAgent |-> {}, approvals |-> {}, paused |-> 0, raised |-> FALSE,
     created |-> {}, executed |-> {}, toolCalls |-> {}]

Init ==
    /\ tp = generateTaskPlan(<<"drive">>)
    /\ tx = TxIdle
    /\ InitService
    /\ fx = FxIdle

\* Specification Spec: the chat turns of one conversation, one turn at a
\* time; resolveApproval requests are served between the turns here (their
\* interleaving with each other is the subject of SpecApproval)
Next ==
    \/ \E userId \in Users, withId \in BOOLEAN,
          explicitType \in ExplicitTypes,
          planNeeded \in BOOLEAN, stepTypes \in PlanStepTypeSeqs :
            ChatBegin(userId, withId, explicitType, planNeeded, stepTypes)
    \/ AgentLlmUnavailable
    \/ AgentLlmFinal
    \/ \E call \in ToolCalls, toolOutcome \in ToolOutcomes :
            AgentLlmTools(call, toolOutcome)
    \/ /\ chat.pc = "idle"
       /\ \E userId \in Users, approvalId \in ApprovalIds,
             approved \in BOOLEAN :
               ResolveApprovalCall(1, userId, approvalId, approved)
    \/ /\ chat.pc = "idle"
       /\ \E toolOutcome \in ToolOutcomes : ResolveToolReturn(1, toolOutcome)

Spec == Init /\ [][Next]_vars

\* Specification SpecConversation: the chat turns of one conversation
\* together with getConversation, deleteConversation and listConversations
\* calls, which may arrive while a turn is running
NextConversation ==
    \/ \E userId \in Users, withId \in BOOLEAN,
          explicitType \in ExplicitTypes,
          planNeeded \in BOOLEAN, stepTypes \in PlanStepTypeSeqs :
            ChatBegin(userId, withId, explicitType, planNeeded, stepTypes)
    \/ AgentLlmUnavailable
    \/ AgentLlmFinal
    \/ \E call \in ToolCalls, toolOutcome \in ToolOutcomes :
            AgentLlmTools(call, toolOutcome)
    \/ \E userId \in Users : GetConversation(userId)
    \/ \E userId \in Users : DeleteConversation(userId)
    \/ \E userId \in Users : ListConversations(userId)

SpecConversation == Init /\ [][NextConversation]_vars

\* ------------------------------------------------------------------------
\* Specification SpecApproval: the approval registry under concurrent
\* resolveApproval calls; requests are created by tool calls of agent loops
\* ------------------------------------------------------------------------
NextApproval ==
    \/ \E userId \in Users, agentType \in AgentTypes, call \in ToolCalls,
          toolOutcome \in ToolOutcomes :
            LoopToolCall(userId, agentType, call, toolOutcome)
    \/ \E r \in Resolvers, userId \in Users, approvalId \in ApprovalIds,
          approved \in BOOLEAN :
            ResolveApprovalCall(r, userId, approvalId, approved)
    \/ \E r \in Resolvers, toolOutcome \in ToolOutcomes :
            ResolveToolReturn(r, toolOutcome)
    \/ \E approvalId \in ApprovalIds : ApprovalGoesStale(approvalId)

SpecApproval == Init /\ [][NextApproval]_vars

\* ------------------------------------------------------------------------
\* Specification SpecTracker: a plan produced by generateTaskPlan, driven by
\* tracker operations and by executePlan calls (agent runs are inputs here)
\* ------------------------------------------------------------------------
StepTypeSeqs == UNION {[1..n -> LlmStepTypes] : n \in 1..MaxSteps}

InitTracker ==
    /\ tp \in {generateTaskPlan(s) : s \in StepTypeSeqs}
    /\ tx = TxIdle
    /\ InitService
    /\ fx = FxIdle

TStart ==
    /\ tx.pc = "idle"
    /\ tp' = startCurrentStep(tp)
    /\ tx' = TxIdle
    /\ UNCHANGED <<serviceVars, fx>>

TComplete ==
    /\ tx.pc = "idle"
    /\ tp' = completeCurrentStep(tp, "result")
    /\ tx' = TxIdle
    /\ UNCHANGED <<serviceVars, fx>>

TFail ==
    /\ tx.pc = "idle"
    /\ tp' = failCurrentStep(tp, "error")
    /\ tx' = TxIdle
    /\ UNCHANGED <<serviceVars, fx>>

TSkip ==
    /\ tx.pc = "idle"
    /\ tp' = skipCurrentStep(tp, "Skipped")
    /\ tx' = TxIdle
    /\ UNCHANGED <<serviceVars, fx>>

\* executePlan: entry (deepClonePlan) and the head of the for loop
TExecEnter ==
    /\ tx.pc = "idle"
    /\ tx' = [TxIdle EXCEPT !.pc = "loop", !.i = 1, !.entry = tp]
    /\ UNCHANGED <<tp, serviceVars, fx>>

\* mutant of LoopSkips: no step is passed over
LoopSkipsNothing(step) == FALSE

\* if (step.status !== "pending") continue
LoopSkips(step) == step.status # "pending"

\* one pass of the loop head for step i: skip a non-pending step, fail the
\* current step when no agent is registered, otherwise start and run
TExecLoop(hasAgent) ==
    /\ tx.pc = "loop"
    /\ UNCHANGED <<serviceVars, fx>>
    /\ IF tx.i > Len(tp.steps)
       THEN /\ tx' = [tx EXCEPT !.pc = "idle"]
            /\ UNCHANGED tp
       ELSE IF LoopSkips(tp.steps[tx.i])
       THEN /\ tx' = [tx EXCEPT !.i = tx.i + 1]
            /\ UNCHANGED tp
       ELSE IF ~hasAgent
       THEN /\ tp' = failCurrentStep(tp, "error")
            /\ tx' = [tx EXCEPT !.i = tx.i + 1,
                                !.noAgent = tx.noAgent \cup {tx.i}]
       ELSE /\ tp' = startCurrentStep(tp)
            /\ tx' = [tx EXCEPT !.pc = "running",
                                !.ran = Append(tx.ran, tx.i)]

\* mutant of TExecReturn: the loop goes on after a step with approvals
TExecReturnNoBreak(hasApprovals) ==
    /\ tx.pc = "running"
    /\ tp' = completeCurrentStep(tp, "result")
    /\ tx' = [tx EXCEPT
                !.pc = "loop", !.i = tx.i + 1,
                !.approvals = IF hasApprovals THEN tx.approvals \cup {tx.i}
                              ELSE tx.approvals,
                !.paused = IF hasApprovals /\ tx.paused = 0 THEN tx.i
                           ELSE tx.paused]
    /\ UNCHANGED <<serviceVars, fx>>

\* agent.run returned, with the tool calls it made and the pending
\* approvals its run created: complete the step, collect the tool calls and
\* the approvals, and break out of the loop when there are approvals
TExecReturn(hasApprovals) ==
    /\ tx.pc = "running"
    /\ tp' = completeCurrentStep(tp, "result")
    /\ LET got == [tx EXCEPT !.toolCalls = @ \cup {tx.i}]
       IN tx' = IF hasApprovals
                THEN [got EXCEPT !.pc = "idle", !.paused = tx.i,
                                 !.created = @ \cup {tx.i},
                                 !.approvals = @ \cup {tx.i}]
                ELSE [got EXCEPT !.pc = "loop", !.i = tx.i + 1]
    /\ UNCHANGED <<serviceVars, fx>>

\* mutant of TExecThrow: the error leaves executePlan
TExecThrowRaises(made) ==
    /\ tx.pc = "running"
    /\ tx' = [tx EXCEPT !.pc = "idle", !.raised = TRUE,
                        !.threw = tx.threw \cup {tx.i}]
    /\ UNCHANGED <<tp, serviceVars, fx>>

\* agent.run threw, after its loop had made nothing, had an approval
\* request created or had executed a tool call: fail the step and go on;
\* nothing of the run reaches allToolCalls and allPendingApprovals
TExecThrow(made) ==
    /\ tx.pc = "running"
    /\ tp' = failCurrentStep(tp, "error")
    /\ tx' = [tx EXCEPT !.pc = "loop", !.i = tx.i + 1,
                        !.threw = @ \cup {tx.i},
                        !.created = IF made = "approval" THEN @ \cup {tx.i}
                                    ELSE @,
                        !.executed = IF made = "toolCall" THEN @ \cup {tx.i}
                                     ELSE @]
    /\ UNCHANGED <<serviceVars, fx>>

NextTracker ==
    \/ TStart
    \/ TComplete
    \/ TFail
    \/ TSkip
    \/ TExecEnter
    \/ \E hasAgent \in BOOLEAN : TExecLoop(hasAgent)
    \/ \E hasApprovals \in BOOLEAN : TExecReturn(hasApprovals)
    \/ \E made \in {"nothing", "approval", "toolCall"} : TExecThrow(made)

SpecTracker == InitTracker /\ [][NextTracker]_vars

\* Specification SpecOrchestrator: executePlan calls on a plan produced by
\* generateTaskPlan: the first call, and the calls that resume the plan a
\* paused call returned
NextOrchestrator ==
    \/ TExecEnter
    \/ \E hasAgent \in BOOLEAN : TExecLoop(hasAgent)
    \/ \E hasApprovals \in BOOLEAN : TExecReturn(hasApprovals)
    \/ \E made \in {"nothing", "approval", "toolCall"} : TExecThrow(made)

SpecOrchestrator == InitTracker /\ [][NextOrchestrator]_vars

\* ------------------------------------------------------------------------
\* Properties of the tracker and of executePlan (SpecTracker)
\* ------------------------------------------------------------------------
StepIds(plan) == 1..Len(plan.steps)

InProgressIds(plan) == {i \in StepIds(plan) : plan.steps[i].status = "in-progress"}

OpenIds(plan) ==
    {i \in StepIds(plan) : plan.steps[i].status \in {"pending", "in-progress"}}

\* Lowest element of a non-empty set of step ids
Lowest(S) == CHOOSE i \in S : \A j \in S : i <= j

\* C1: a step that is completed, failed or skipped never changes status
\* again, whatever tracker operation is applied (also after isComplete), and
\* no step moves from in-progress back to pending.
C1_TerminalNeverChanges ==
    [][\A i \in StepIds(tp) :
          /\ (tp.steps[i].status \in TerminalStatuses
                 => tp'.steps[i].status = tp.steps[i].status)
          /\ (tp.steps[i].status = "in-progress"
                 => tp'.steps[i].status # "pending")]_vars

PointerOK(plan) ==
    \/ plan.isComplete
    \/ /\ OpenIds(plan) # {}
       /\ plan.currentStep = Lowest(OpenIds(plan))

\* C2: in every plan reachable by tracker operations and by executePlan,
\* isComplete is true or currentStep is the lowest-id pending/in-progress step.
C2_CurrentStepIsLowestOpen == PointerOK(tp)

\* C2 witness: executePlan is running a later step after an earlier one failed
C2_Witness ==
    /\ tx.pc = "running"
    /\ ~tp.isComplete
    /\ tp.currentStep = 2
    /\ tp.steps[1].status = "failed"
    /\ tp.steps[2].status = "in-progress"

\* C3: at most one step of a reachable plan is in-progress.
C3_AtMostOneInProgress == Cardinality(InProgressIds(tp)) <= 1

\* C3 witness: a later step is in progress after the first one failed
C3_Witness ==
    /\ Len(tp.steps) >= 3
    /\ tp.steps[1].status = "failed"
    /\ tp.steps[2].status = "completed"
    /\ tp.steps[3].status = "in-progress"

\* ------------------------------------------------------------------------
\* Properties of the approval registry and resolveApproval (SpecApproval)
\* ------------------------------------------------------------------------

\* the last event is a resolveApproval call that came back without waiting
\* for a tool, or that went on to invoke the stored tool
ResolveCallEvent(l) ==
    \/ l.ev = "resolveCall"
    \/ l.ev = "resolved" /\ l.outcome \notin {"done", "toolerror", "threw"}

\* C4: once resolveApproval has acted on an approval (approved and the tool
\* run, whatever its outcome, or rejected) the approval is consumed: every
\* later resolveApproval on that id is answered not-found and the stored tool
\* is not executed a second time.
C4_ActedApprovalIsConsumed ==
    /\ \A id \in ApprovalIds :
          acted[id] => (reg[id] = Consumed /\ execCount[id] <= 1)
    /\ (ResolveCallEvent(last) /\ last.late)
          => (last.ev = "resolved" /\ last.outcome = "notfound")

\* C4 witness: a resolveApproval call on an approval whose tool had already
\* been run came back not-found
C4_Witness ==
    /\ last.ev = "resolved"
    /\ last.late
    /\ last.outcome = "notfound"
    /\ execCount[last.id] = 1
    /\ acted[last.id]

\* C5: however two or more resolveApproval(userId, id, true) calls on one
\* pending approval interleave, a retry during the first call's tool
\* invocation included, the stored tool is invoked at most once.
C5_ToolInvokedAtMostOnce == \A id \in ApprovalIds : execCount[id] <= 1

\* C5 witness: a retry by the owner came back while the first call is still
\* waiting for the tool
C5_Witness ==
    \E r \in Resolvers :
        /\ res[r].pc = "tool"
        /\ last.ev = "resolved"
        /\ last.outcome = "notfound"
        /\ last.id = res[r].id
        /\ last.caller = res[r].user
        /\ ~acted[last.id]
        /\ execCount[last.id] = 1

\* C9: resolveApproval on an id that does not exist is answered not-found,
\* invokes no tool and changes neither the registry nor the conversation;
\* resolveApproval by the owner on a request past its validity is answered
\* expired, and an expired answer never comes with a tool invocation.
C9_NotFoundAndExpired ==
    [][ResolveCallEvent(last') =>
         /\ (last'.id \in ApprovalIds
              /\ reg[last'.id].status \in {"absent", "consumed"})
               => /\ last'.ev = "resolved"
                  /\ last'.outcome = "notfound"
                  /\ UNCHANGED <<reg, conv, execCount, res>>
         /\ (last'.id \in ApprovalIds
              /\ reg[last'.id].status = "pending"
              /\ reg[last'.id].stale
              /\ reg[last'.id].owner = last'.caller)
               => /\ last'.ev = "resolved"
                  /\ last'.outcome = "expired"
         /\ (last'.ev = "resolved" /\ last'.outcome = "expired")
               => UNCHANGED <<conv, execCount, res>>]_vars

\* C9 witness: a request past its validity was resolved by its owner, the
\* answer was expired and no tool has been invoked for it
C9_Witness ==
    /\ last.ev = "resolved"
    /\ last.outcome = "expired"
    /\ reg[last.id].status = "expired"
    /\ reg[last.id].owner = last.caller
    /\ execCount[last.id] = 0

\* ------------------------------------------------------------------------
\* Properties of chat turns (Spec)
\* ------------------------------------------------------------------------

\* C6: when executePlan halts because the run of a step returned pending
\* approvals, that step has status pending in the plan that is persisted.
C6_PausedStepLeftPending ==
    conv.pausedStep # 0 => conv.plan.steps[conv.pausedStep].status = "pending"

\* C7: after a turn paused a plan on pending approvals, no later turn starts
\* a further step of that plan while one of those approvals is unresolved.
C7_NoStepWhileApprovalsPending ==
    (chat.pc = "llm" /\ chat.orch /\ PlanOpen(conv.plan))
        => \A id \in conv.pausedOn : reg[id].status # "pending"

\* C8: every tool invocation, from the tool loop and from an approved
\* resolution, carries the caller's id as userId whatever the model supplied
\* or the approval stored, and the gateway is shown the same injected id.
C8_CallerIdInjected ==
    last.ev \in {"loop", "resolveCall"}
        => /\ last.callUsers \subseteq {last.caller}
           /\ last.gateUsers \subseteq {last.caller}

\* C8 witness: the model supplied another user's id for a call that the
\* gateway allowed; gateway and tool both saw the caller's id
C8_Witness ==
    /\ last.ev = "loop"
    /\ last.caller = "alice"
    /\ last.modelUsers = {"bob"}
    /\ last.gateUsers = {"alice"}
    /\ last.callUsers = {"alice"}

\* C10 (as claimed): when the model backend is unavailable during a turn,
\* chat raises to its caller and nothing is saved, with a single agent and
\* under the orchestrator alike.
C10_LlmDownAlwaysRaises ==
    [][last'.ev = "llmDown"
          => /\ last'.outcome = "raised"
             /\ chat' = ChatIdle
             /\ conv' = conv]_vars

\* C10 (amended): with a single agent, chat raises and nothing is saved;
\* under the orchestrator the error is caught, the running step becomes
\* failed and the turn goes on with the rest of the plan without raising.
C10_LlmDownRaisesOrFailsStep ==
    [][last'.ev = "llmDown"
          => IF chat.orch
             THEN /\ last'.outcome = "stepFailed"
                  /\ LET after == IF chat'.pc = "idle" THEN conv'.plan
                                  ELSE chat'.plan
                     IN \A k \in StepIds(chat.plan) :
                           chat.plan.steps[k].status = "in-progress"
                               => /\ after.steps[k].status = "failed"
                                  /\ after.steps[k].error = "error"
                  /\ chat'.pc = "idle" => conv'.owner = chat.user
                  /\ chat'.pc # "idle" => conv' = conv /\ chat'.user = chat.user
             ELSE /\ last'.outcome = "raised"
                  /\ chat' = ChatIdle
                  /\ conv' = conv]_vars

\* C10 witness: the backend failed under the orchestrator, the step is
\* failed and the turn goes on with the run of the next step
C10_Witness ==
    /\ last.ev = "llmDown"
    /\ last.outcome = "stepFailed"
    /\ chat.pc = "llm"
    /\ chat.orch
    /\ \E k \in StepIds(chat.plan) :
          /\ chat.plan.steps[k].status = "failed"
          /\ chat.plan.steps[k + 1].status = "in-progress"

\* ------------------------------------------------------------------------
\* Specification SpecRouter: routeToAgent applied to one request
\* ------------------------------------------------------------------------
MaxPatternScore == 2

OptionalAgentTypes == AgentTypes \cup {"undef"}

RouterInputs ==
    [explicitType : OptionalAgentTypes,
     conversationAgentType : OptionalAgentTypes,
     topType : AgentTypes,
     topScore : 0..MaxPatternScore,
     confident : BOOLEAN,
     llmDecision : AgentTypes \cup {"null"}]

NoDecision ==
    [route_to |-> "none", source |-> "none", confidence |-> "none",
     scored |-> FALSE, classified |-> FALSE]

InitRouter ==
    /\ tp = generateTaskPlan(<<"drive">>)
    /\ tx = TxIdle
    /\ InitService
    /\ fx \in [pc : {"in"}, in : RouterInputs, out : {NoDecision}]

\* mutant of RouteCall: the pattern match never counts as confident, the
\* sticky type is followed whenever there is one
RouteCallStickyFirst ==
    /\ fx.pc = "in"
    /\ fx' = [fx EXCEPT
                !.pc = "out",
                !.out = routeToAgent(fx.in.explicitType,
                                     fx.in.conversationAgentType,
                                     fx.in.topType, fx.in.topScore,
                                     FALSE, fx.in.llmDecision)]
    /\ UNCHANGED <<trackerVars, serviceVars>>

RouteCall ==
    /\ fx.pc = "in"
    /\ fx' = [fx EXCEPT
                !.pc = "out",
                !.out = routeToAgent(fx.in.explicitType,
                                     fx.in.conversationAgentType,
                                     fx.in.topType, fx.in.topScore,
                                     fx.in.confident, fx.in.llmDecision)]
    /\ UNCHANGED <<trackerVars, serviceVars>>

NextRouter == RouteCall

SpecRouter == InitRouter /\ [][NextRouter]_vars

\* C11: given an explicit type hint, routeToAgent returns that type with
\* source explicit and confidence 1, whatever the message scores, the sticky
\* type and the classifier's answer, and neither the pattern scorer nor the
\* classifier is called.
C11_ExplicitHintWins ==
    (fx.pc = "out" /\ fx.in.explicitType # "undef")
        => /\ fx.out.route_to = fx.in.explicitType
           /\ fx.out.source = "explicit"
           /\ fx.out.confidence = "1"
           /\ ~fx.out.scored
           /\ ~fx.out.classified

\* C11 witness: a hint that differs from a confident pattern match, from the
\* sticky type and from the classifier's answer was followed
C11_Witness ==
    /\ fx.pc = "out"
    /\ fx.in.explicitType = "document"
    /\ fx.in.topType = "search"
    /\ fx.in.topScore > 0
    /\ fx.in.confident
    /\ fx.in.conversationAgentType = "drive"
    /\ fx.in.llmDecision = "search"
    /\ fx.out.route_to = "document"

\* ------------------------------------------------------------------------
\* Context compression: estimateMessageChars and compressMessagesIfNeeded.
\* A message is its role, the length of its content (0 when it has none),
\* the characters of its tool calls (names and arguments) and whether its
\* content is the compressed form of a longer one.
\* ------------------------------------------------------------------------
CHARS_PER_TOKEN == 4

MAX_CONTEXT_TOKENS == 120000

MAX_CONTEXT_CHARS == MAX_CONTEXT_TOKENS * CHARS_PER_TOKEN

KEEP_RECENT == 6

\* a tool message is shrunk when its content is longer than this
ShrinkOver == 200

\* the characters of the content that shrinking keeps
ShrinkHead == 150

\* the characters of "\n[...compressed — original " and " chars]"
ShrinkNoteChars == 34

MaxMsgs == 8

RECURSIVE Digits(_)
Digits(n) == IF n < 10 THEN 1 ELSE 1 + Digits(n \div 10)

RECURSIVE estimateMessageChars(_)
estimateMessageChars(messages) ==
    IF messages = <<>>
    THEN 0
    ELSE Head(messages).len + Head(messages).tc
            + estimateMessageChars(Tail(messages))

\* content.slice(0, 150) + "\n[...compressed — original " + oldLen + " chars]"
ShrinkMessage(msg) ==
    [msg EXCEPT !.len = ShrinkHead + ShrinkNoteChars + Digits(msg.len),
                !.cut = TRUE]

\* mutant of ShrinkLoop: no tool result is shrunk
ShrinkLoopNone(st, i, shrinkBound) == st

\* the for loop that shrinks old tool results, from (0-based) index i on;
\* st is the list, the running total and (history) the messages dropped
RECURSIVE ShrinkLoop(_, _, _)
ShrinkLoop(st, i, shrinkBound) ==
    IF ~(i < shrinkBound /\ st.total > MAX_CONTEXT_CHARS)
    THEN st
    ELSE LET msg == st.messages[i + 1] IN
         IF msg.role = "tool" /\ msg.len > ShrinkOver
         THEN LET new == ShrinkMessage(msg) IN
              ShrinkLoop([st EXCEPT
                            !.messages = [st.messages EXCEPT ![i + 1] = new],
                            !.total = st.total - (msg.len - new.len)],
                         i + 1, shrinkBound)
         ELSE ShrinkLoop(st, i + 1, shrinkBound)

\* mutant of SpliceSecond: the first message is removed
SpliceFirst(messages) == Tail(messages)

\* messages.splice(1, 1)
SpliceSecond(messages) == <<Head(messages)>> \o Tail(Tail(messages))

\* the while loop that drops the oldest messages after the first one
RECURSIVE DropLoop(_)
DropLoop(st) ==
    IF ~(Len(st.messages) > KEEP_RECENT + 1 /\ st.total > MAX_CONTEXT_CHARS)
    THEN st
    ELSE DropLoop([messages |-> SpliceSecond(st.messages),
                   total |-> st.total - st.messages[2].len,
                   dropped |-> Append(st.dropped, st.messages[2])])

\* mutant of compressMessagesIfNeeded: the early return under the cap is
\* missing, old tool results are shrunk whenever the call is made
compressAlways(messages) ==
    LET Shrunk(k) == IF /\ k > 1
                        /\ k <= Len(messages) - KEEP_RECENT
                        /\ messages[k].role = "tool"
                        /\ messages[k].len > ShrinkOver
                     THEN ShrinkMessage(messages[k])
                     ELSE messages[k]
        all == [k \in 1..Len(messages) |-> Shrunk(k)]
    IN DropLoop([messages |-> all, total |-> estimateMessageChars(all),
                 dropped |-> <<>>])

\* compressMessagesIfNeeded: the list it leaves and the total it tracked
compressMessagesIfNeeded(messages) ==
    LET start == [messages |-> messages,
                  total |-> estimateMessageChars(messages),
                  dropped |-> <<>>]
    IN IF start.total <= MAX_CONTEXT_CHARS
       THEN start
       ELSE LET max(a, b) == IF a >= b THEN a ELSE b
                shrinkBound == max(1, Len(messages) - KEEP_RECENT)
                shrunk == ShrinkLoop(start, 1, shrinkBound)
            IN IF shrunk.total <= MAX_CONTEXT_CHARS
               THEN shrunk
               ELSE DropLoop(shrunk)

\* ------------------------------------------------------------------------
\* Specification SpecCompress: compressMessagesIfNeeded applied to a message
\* list, and applied again to what it left
\* ------------------------------------------------------------------------
SystemMessage == [role |-> "system", len |-> 1000, tc |-> 0, cut |-> FALSE]

\* the messages the lists are built from: a short user message, a long tool
\* result and an assistant message with long tool-call arguments
MessageKinds ==
    {[role |-> "user", len |-> 40, tc |-> 0, cut |-> FALSE],
     [role |-> "tool", len |-> 240000, tc |-> 0, cut |-> FALSE],
     [role |-> "assistant", len |-> 0, tc |-> 239000, cut |-> FALSE]}

MessageLists ==
    UNION {{<<SystemMessage>> \o rest : rest \in [1..n -> MessageKinds]} :
              n \in 0..(MaxMsgs - 1)}

NoCompression == [messages |-> <<>>, total |-> 0, dropped |-> <<>>]

InitCompress ==
    /\ tp = generateTaskPlan(<<"drive">>)
    /\ tx = TxIdle
    /\ InitService
    /\ fx \in [pc : {"in"}, in : MessageLists, once : {NoCompression},
               twice : {NoCompression}]

CompressCall ==
    /\ fx.pc = "in"
    /\ fx' = [fx EXCEPT !.pc = "once",
                        !.once = compressMessagesIfNeeded(fx.in)]
    /\ UNCHANGED <<trackerVars, serviceVars>>

CompressAgain ==
    /\ fx.pc = "once"
    /\ fx' = [fx EXCEPT !.pc = "twice",
                        !.twice = compressMessagesIfNeeded(fx.once.messages)]
    /\ UNCHANGED <<trackerVars, serviceVars>>

NextCompress == CompressCall \/ CompressAgain

SpecCompress == InitCompress /\ [][NextCompress]_vars

\* C12: compressMessagesIfNeeded leaves the list unchanged when the estimated
\* size is at or under the cap, and a second call right after a first one
\* leaves the list as the first call left it.
C12_NoOpUnderCapAndIdempotent ==
    /\ (fx.pc \in {"once", "twice"}
          /\ estimateMessageChars(fx.in) <= MAX_CONTEXT_CHARS)
            => fx.once.messages = fx.in
    /\ fx.pc = "twice" => fx.twice.messages = fx.once.messages

\* C12 witness: the first call dropped a message and still left the list
\* above the cap, tracking a total above the real estimate, and the second
\* call has been made
C12_Witness ==
    /\ fx.pc = "twice"
    /\ Len(fx.once.messages) < Len(fx.in)
    /\ estimateMessageChars(fx.once.messages) > MAX_CONTEXT_CHARS
    /\ estimateMessageChars(fx.once.messages) < fx.once.total

\* ------------------------------------------------------------------------
\* Tool results in the agent loop: truncation and recording. A text is
\* where it comes from, how many of its leading characters are kept, the
\* original length stated by a truncation note (0 without a note) and its
\* length.
\* ------------------------------------------------------------------------
MAX_TOOL_RESULT_CHARS == 20000

\* the characters of "\n\n[Truncated: ", " of " and " chars]"
TruncNoteChars == 25

\* how far around the cap the result lengths of SpecToolResult go
MaxSpread == 12

\* mutant of TruncateResult: a result of exactly the cap length is cut too
TruncateResultAtCap(result) ==
    IF result.len >= MAX_TOOL_RESULT_CHARS
    THEN [result EXCEPT
            !.kept = MAX_TOOL_RESULT_CHARS,
            !.note = result.len,
            !.len = MAX_TOOL_RESULT_CHARS + TruncNoteChars
                       + Digits(MAX_TOOL_RESULT_CHARS) + Digits(result.len)]
    ELSE result

\* result.slice(0, MAX_TOOL_RESULT_CHARS) + the note, when result is longer
\* than the cap
TruncateResult(result) ==
    IF result.len > MAX_TOOL_RESULT_CHARS
    THEN [result EXCEPT
            !.kept = MAX_TOOL_RESULT_CHARS,
            !.note = result.len,
            !.len = MAX_TOOL_RESULT_CHARS + TruncNoteChars
                       + Digits(MAX_TOOL_RESULT_CHARS) + Digits(result.len)]
    ELSE result

\* the end of the loop body: the result is truncated, pushed to allToolCalls
\* and pushed to the messages as the tool-role message
RecordToolResult(result) ==
    LET recorded == TruncateResult(result) IN
    [toolCall |-> recorded, message |-> recorded]

\* where the result text of a tool call comes from: the approval-required
\* text, the blocked text, the tool's answer, the text of a thrown error
ResultOrigins == {"approval", "blocked", "tool", "thrown"}

ResultLens ==
    {0, 25000}
      \cup (MAX_TOOL_RESULT_CHARS - MaxSpread)..(MAX_TOOL_RESULT_CHARS + MaxSpread)

RawResults ==
    {[origin |-> o, kept |-> n, note |-> 0, len |-> n] :
        o \in ResultOrigins, n \in ResultLens}

NoText == [origin |-> "none", kept |-> 0, note |-> 0, len |-> 0]

InitToolResult ==
    /\ tp = generateTaskPlan(<<"drive">>)
    /\ tx = TxIdle
    /\ InitService
    /\ fx \in [pc : {"in"}, in : RawResults,
               out : {[toolCall |-> NoText, message |-> NoText]}]

ToolResultRecorded ==
    /\ fx.pc = "in"
    /\ fx' = [fx EXCEPT !.pc = "out", !.out = RecordToolResult(fx.in)]
    /\ UNCHANGED <<trackerVars, serviceVars>>

NextToolResult == ToolResultRecorded

SpecToolResult == InitToolResult /\ [][NextToolResult]_vars

\* C13: a tool result longer than the cap, executed or synthesized, is
\* recorded in the ToolCall and fed back to the model as its first cap-many
\* characters followed by the note stating the original length; a result at
\* or under the cap is recorded unchanged.
C13_ResultTruncatedAtCap ==
    fx.pc = "out"
        => /\ fx.out.message = fx.out.toolCall
           /\ fx.out.toolCall.origin = fx.in.origin
           /\ IF fx.in.len > MAX_TOOL_RESULT_CHARS
              THEN /\ fx.out.toolCall.kept = MAX_TOOL_RESULT_CHARS
                   /\ fx.out.toolCall.note = fx.in.len
                   /\ fx.out.toolCall.len =
                         MAX_TOOL_RESULT_CHARS + TruncNoteChars
                            + Digits(MAX_TOOL_RESULT_CHARS) + Digits(fx.in.len)
              ELSE fx.out.toolCall = fx.in

\* C13 witness: a 25,000-character result of a tool was recorded with its
\* first 20,000 characters and the note
C13_Witness ==
    /\ fx.pc = "out"
    /\ fx.in.origin = "tool"
    /\ fx.in.len = 25000
    /\ fx.out.toolCall.kept = 20000
    /\ fx.out.toolCall.note = 25000
    /\ fx.out.toolCall.len = 20035

\* C14: a chat turn in which shouldPlanTask said no and a single agent run
\* handled the message returns a response without taskPlan and without the
\* plan-progress footer, whatever plans the conversation completed before.
C14_NoPlanInUnplannedResponse ==
    (last.ev = "chatDone" /\ last.shouldPlan = "false" /\ last.single)
        => (~last.taskPlan /\ ~last.footer)

\* ------------------------------------------------------------------------
\* Specification SpecPlanner: generateTaskPlan over the answers of the
\* planning model, which is asked for at most PlanStepLimit steps
\* ------------------------------------------------------------------------
PlanStepLimit == 8

\* the longest answer of the planning model
MaxAnswerSteps == 9

\* an answer of n steps: the agentType field of the first step and that of
\* the steps after it
PlannerAnswers ==
    {[i \in 1..n |-> IF i = 1 THEN a ELSE b] :
        n \in 0..MaxAnswerSteps, a \in LlmStepTypes, b \in LlmStepTypes}

InitPlanner ==
    /\ tp = generateTaskPlan(<<"drive">>)
    /\ tx = TxIdle
    /\ InitService
    /\ fx \in [pc : {"in"}, in : PlannerAnswers, out : {NoPlan}]

PlanGenerated ==
    /\ fx.pc = "in"
    /\ fx' = [fx EXCEPT !.pc = "out", !.out = generateTaskPlan(fx.in)]
    /\ UNCHANGED <<trackerVars, serviceVars>>

NextPlanner == PlanGenerated

SpecPlanner == InitPlanner /\ [][NextPlanner]_vars

\* C15: every plan returned by generateTaskPlan has between 1 and 8 steps,
\* whatever number of steps the planning model returns.
C15_PlanHasOneToEightSteps ==
    (fx.pc = "out" /\ HasPlan(fx.out))
        => Len(fx.out.steps) \in 1..PlanStepLimit

\* the last event is a chat, getConversation or deleteConversation call that
\* was given the conversation's id
CallWithId(l) ==
    /\ l.ev \in {"chatNotFound", "chatStarted", "chatDone", "get", "delete"}
    /\ l.withId

\* C16: chat, getConversation and deleteConversation given the id of a
\* conversation that is missing, inactive or owned by another user raise
\* not-found before any routing, planning, model call or tool call, and
\* nothing is created or modified.
C16_NotFoundBeforeAnything ==
    [][(CallWithId(last')
          /\ (conv = NoConv \/ ~conv.active \/ conv.owner # last'.caller))
        => /\ last'.outcome = "notfound"
           /\ conv' = conv
           /\ chat' = chat
           /\ reg' = reg
           /\ execCount' = execCount]_vars

\* C16 witness: bob's chat on alice's active conversation was answered with
\* not-found
C16_Witness ==
    /\ last.ev = "chatNotFound"
    /\ last.caller = "bob"
    /\ conv.owner = "alice"
    /\ conv.active
    /\ HasPlan(conv.plan)

\* the conversation has been deleted
Deleted(c) == c # NoConv /\ ~c.active

\* C17: deleteConversation is a soft delete that is never undone: it keeps
\* the stored messages, and from then on the conversation stays inactive
\* with at least the messages it had, chat, getConversation and
\* deleteConversation on its id raise not-found and listConversations does
\* not list it.
C17_SoftDeleteIsFinal ==
    [][/\ (last'.ev = "delete" /\ last'.outcome = "deleted")
            => /\ Deleted(conv')
               /\ conv'.messages = conv.messages
               /\ conv.messages > 0
       /\ Deleted(conv)
            => /\ Deleted(conv')
               /\ conv'.messages >= conv.messages
               /\ CallWithId(last') => last'.outcome = "notfound"
               /\ last'.ev = "list" => ~last'.listed]_vars

\* C17 witness: the owner's chat on the deleted conversation was answered
\* with not-found, the messages still being stored
C17_Witness ==
    /\ Deleted(conv)
    /\ conv.messages = MessagesPerTurn
    /\ last.ev = "chatNotFound"
    /\ last.caller = conv.owner

\* ------------------------------------------------------------------------
\* PermissionService.checkPermission for a resource other than the virtual
\* root folder, without a share-link token. The resource has id 1 and its
\* ancestors the ids 2, 3, ...; an ACL entry expires in the past, in the
\* future, or has no expiry.
\* ------------------------------------------------------------------------
ROLE_LEVELS == [viewer |-> 1, commenter |-> 2, editor |-> 3, owner |-> 4]

AccessRoles == {"viewer", "commenter", "editor", "owner"}

\* the longest ancestor list of a resource
MaxAncestors == 1

ResourceIds == 1..(MaxAncestors + 1)

AclEntries ==
    [sharedWith : Users, resource : ResourceIds, role : AccessRoles,
     expiresAt : {"past", "future", "none"}]

\* the SharedAccess collection, in the order find returns its documents
AclLists == UNION {[1..k -> AclEntries] : k \in 0..2}

NoResource == [exists |-> FALSE, user |-> "none", ancestors |-> 0]

\* getResource: null, or the resource with its owner and its ancestors
Resources ==
    {NoResource}
      \cup [exists : {TRUE}, user : Users, ancestors : 0..MaxAncestors]

\* SharedAccess.find: the entries of the user on a resource of the chain
\* that expire after now or have no expiry
SharedAccessFind(acl, chainIds, userId) ==
    LET Matches(e) ==
            /\ e.sharedWith = userId
            /\ e.resource \in chainIds
            /\ e.expiresAt \in {"future", "none"}
    IN SelectSeq(acl, Matches)

\* the loop of checkACLPermission over the found entries
RECURSIVE MaxRoleLoop(_, _, _)
MaxRoleLoop(permissions, i, maxRole) ==
    IF i > Len(permissions)
    THEN maxRole
    ELSE MaxRoleLoop(permissions, i + 1,
                     IF ROLE_LEVELS[permissions[i].role] > ROLE_LEVELS[maxRole]
                     THEN permissions[i].role ELSE maxRole)

\* checkACLPermission: the role of the permission set, "null" for none
checkACLPermission(acl, chainIds, userId) ==
    LET permissions == SharedAccessFind(acl, chainIds, userId) IN
    IF Len(permissions) = 0
    THEN "null"
    ELSE MaxRoleLoop(permissions, 1, "viewer")

\* getEffectivePermissions without a share-link token: effectiveRole
getEffectivePermissions(userId, resource, acl) ==
    IF ~resource.exists
    THEN "null"
    ELSE IF userId # "null" /\ resource.user = userId
    THEN "owner"
    ELSE IF userId = "null"
    THEN "null"
    ELSE checkACLPermission(acl, 1..(1 + resource.ancestors), userId)

\* mutant of hasSufficientRole: the required role itself is not enough
hasSufficientRoleAbove(userRole, requiredRole) ==
    IF userRole = "null" THEN FALSE
    ELSE ROLE_LEVELS[userRole] > ROLE_LEVELS[requiredRole]

hasSufficientRole(userRole, requiredRole) ==
    IF userRole = "null" THEN FALSE
    ELSE ROLE_LEVELS[userRole] >= ROLE_LEVELS[requiredRole]

checkPermission(userId, resource, acl, requireRole) ==
    hasSufficientRole(getEffectivePermissions(userId, resource, acl),
                      requireRole)

\* Specification SpecPermission: checkPermission over callers, resources,
\* ACLs and required roles
InitPermission ==
    /\ tp = generateTaskPlan(<<"drive">>)
    /\ tx = TxIdle
    /\ InitService
    /\ fx \in [pc : {"in"}, userId : {"null", FirstUser},
               resource : Resources, acl : AclLists,
               requireRole : AccessRoles, out : {FALSE}]

PermissionChecked ==
    /\ fx.pc = "in"
    /\ fx' = [fx EXCEPT
                !.pc = "out",
                !.out = checkPermission(fx.userId, fx.resource, fx.acl,
                                        fx.requireRole)]
    /\ UNCHANGED <<trackerVars, serviceVars>>

NextPermission == PermissionChecked

SpecPermission == InitPermission /\ [][NextPermission]_vars

\* viewer < commenter < editor < owner
RoleOrder == <<"viewer", "commenter", "editor", "owner">>

RoleAtLeast(role, required) ==
    \E i, j \in 1..Len(RoleOrder) :
        RoleOrder[i] = role /\ RoleOrder[j] = required /\ i >= j

\* C18: checkPermission is true exactly when the user owns the resource or
\* holds, on the resource or one of its ancestors, an unexpired ACL entry
\* whose role is at least the required one; it is false for a null user, for
\* a resource that does not exist and when every matching entry has expired.
C18_PermissionIffOwnerOrAclRole ==
    fx.pc = "out"
        => (fx.out <=>
              /\ fx.userId # "null"
              /\ fx.resource.exists
              /\ \/ fx.resource.user = fx.userId
                 \/ \E i \in 1..Len(fx.acl) :
                      /\ fx.acl[i].sharedWith = fx.userId
                      /\ fx.acl[i].resource <= 1 + fx.resource.ancestors
                      /\ fx.acl[i].expiresAt # "past"
                      /\ RoleAtLeast(fx.acl[i].role, fx.requireRole))

\* C18 witness: the user's entry on the resource itself has expired, the
\* editor role inherited from the parent folder is granted as editor
C18_Witness ==
    /\ fx.pc = "out"
    /\ fx.out
    /\ fx.userId = "alice"
    /\ fx.resource = [exists |-> TRUE, user |-> "bob", ancestors |-> 1]
    /\ fx.requireRole = "editor"
    /\ fx.acl = <<[sharedWith |-> "alice", resource |-> 1, role |-> "owner",
                   expiresAt |-> "past"],
                  [sharedWith |-> "alice", resource |-> 2, role |-> "editor",
                   expiresAt |-> "future"]>>

\* C19: in an agent run the tool-invocation interface is called for a
\* requested tool call only if the gateway decision for that same call, made
\* on the injected arguments, was allowed; a blocked or approval-required
\* decision leads to no invocation.
C19_InvokedOnlyIfAllowed ==
    last.ev = "loop"
        => /\ last.callUsers # {}
                => (last.outcome = "allowed" /\ last.callUsers = last.gateUsers)
           /\ last.outcome \in {"blocked", "approval"} => last.callUsers = {}

\* C19 witness: in a running turn a call was allowed by the gateway and
\* invoked with the arguments the gateway saw
C19_Witness ==
    /\ chat.pc = "llm"
    /\ last.ev = "loop"
    /\ last.outcome = "allowed"
    /\ last.callUsers = {chat.user}
    /\ last.gateUsers = {chat.user}

\* C20: resolveApproval calls the tool-invocation interface if and only if
\* the gateway reports the status approved, and then once, with the tool
\* name and the arguments stored in the approval request; for rejected,
\* expired and a not-found id it makes no tool call.
C20_ToolCalledIffApproved ==
    [][ResolveCallEvent(last')
        => /\ (last'.ev = "resolveCall") <=> (last'.status = "approved")
           /\ last'.ev = "resolveCall"
                => /\ last'.tool = reg[last'.id].tool
                   /\ last'.callUsers = {reg[last'.id].argUser}
                   /\ execCount'[last'.id] = execCount[last'.id] + 1
                   /\ \A id \in ApprovalIds \ {last'.id} :
                         execCount'[id] = execCount[id]
           /\ last'.status \in {"rejected", "expired", "null"}
                => execCount' = execCount]_vars

\* C20 witness: the owner's approval of a pending delete_file request has
\* led to the call of delete_file with the stored arguments
C20_Witness ==
    /\ last.ev = "resolveCall"
    /\ last.status = "approved"
    /\ last.tool = "delete_file"
    /\ last.callUsers = {last.caller}
    /\ reg[last.id].tool = "delete_file"
    /\ reg[last.id].argUser = last.caller
    /\ execCount[last.id] = 1

\* ------------------------------------------------------------------------
\* Properties of executePlan (SpecOrchestrator)
\* ------------------------------------------------------------------------
\* the steps an agent was run for in the call
RanIds == {tx.ran[k] : k \in 1..Len(tx.ran)}

\* C21: when the agent run of a step returns pending approvals, executePlan
\* starts no later step in that call: the call is over, every later step that
\* was pending on entry is still pending, no agent was run for a later step,
\* and the step's approvals are among the returned ones.
C21_PauseStopsTheLoop ==
    tx.paused # 0
        => /\ tx.pc = "idle"
           /\ tx.paused \in tx.approvals
           /\ \A j \in StepIds(tp) :
                 j > tx.paused
                    => /\ j \notin RanIds
                       /\ tx.entry.steps[j].status = "pending"
                             => tp.steps[j].status = "pending"

\* C21 witness: the call paused at step 1 of a plan with three steps
C21_Witness ==
    /\ tx.paused = 1
    /\ Len(tp.steps) = 3
    /\ tx.ran = <<1>>
    /\ tp.steps[2].status = "pending"
    /\ tp.steps[3].status = "pending"

\* C22: executePlan runs an agent only for steps that were pending on entry,
\* in ascending order and at most once per step; a step that was completed,
\* failed or skipped on entry keeps its status, result and error.
C22_OnlyPendingStepsRun ==
    tx.entry # NoPlan
        => /\ \A k \in 1..Len(tx.ran) :
                 tx.entry.steps[tx.ran[k]].status = "pending"
           /\ \A k, l \in 1..Len(tx.ran) : k < l => tx.ran[k] < tx.ran[l]
           /\ \A j \in StepIds(tp) :
                 tx.entry.steps[j].status \in TerminalStatuses
                    => tp.steps[j] = tx.entry.steps[j]

\* C22 witness: a call that resumed a plan whose first step was finished has
\* run the two steps after it
C22_Witness ==
    /\ tx.pc = "idle"
    /\ tx.ran = <<2, 3>>
    /\ Len(tx.entry.steps) = 3
    /\ tx.entry.steps[1].status = "completed"
    /\ tp.steps[1] = tx.entry.steps[1]

PlanPassedInAfter(plan, updated) == [plan EXCEPT !.steps = updated.steps]

\* C24: each tracker transition is pure: it returns a new plan value and
\* leaves the plan passed in unchanged, the status, result and error of its
\* steps, its currentStep and its isComplete included.
C24_TrackerLeavesInputUnchanged ==
    [][tp' # tp => PlanPassedInAfter(tp, tp') = tp]_vars

\* chat has just routed a message: the step left the idle service and
\* recorded the turn's start or its immediate end
ChatRouted == /\ chat.pc = "idle"
              /\ last' # last
              /\ last'.ev \in {"chatStarted", "chatDone"}

\* C25 as stated: the stored sticky type is offered to the router only if
\* the conversation's plan is absent or complete.
C25_StickyOnlyWhenPlanDone ==
    [][(ChatRouted /\ last'.sticky # "undef") => ~PlanOpen(conv.plan)]_vars

\* C25: the conversation's stored agent type is offered to the router
\* exactly while the conversation has an incomplete plan; when the plan is
\* absent or complete the router gets no sticky type.
C25_StickyOnlyWhilePlanOpen ==
    [][ChatRouted =>
         last'.sticky = IF PlanOpen(conv.plan) THEN conv.agentType
                        ELSE "undef"]_vars

C25_Witness == /\ last.ev \in {"chatStarted", "chatDone"}
               /\ last.sticky \in AgentTypes
               /\ HasPlan(conv.plan)

\* C26: without an explicit hint, a top pattern score above 0 with a
\* confidence at or over the threshold gives the top type with source
\* pattern, a different sticky type notwithstanding; otherwise a sticky type
\* is returned with source conversation and confidence 0.9 and the
\* classifier is not called; the classifier is called only when neither
\* applies.
C26_PatternThenStickyThenClassifier ==
    (fx.pc = "out" /\ fx.in.explicitType = "undef")
        => LET strong == fx.in.topScore > 0 /\ fx.in.confident
               sticky == fx.in.conversationAgentType
           IN /\ strong => /\ fx.out.route_to = fx.in.topType
                           /\ fx.out.source = "pattern"
                           /\ ~fx.out.classified
              /\ (~strong /\ sticky # "undef")
                    => /\ fx.out.route_to = sticky
                       /\ fx.out.source = "conversation"
                       /\ fx.out.confidence = "0.9"
                       /\ ~fx.out.classified
              /\ fx.out.classified <=> (~strong /\ sticky = "undef")

\* C26 witness: a confident match for search overrode the sticky type drive
C26_Witness ==
    /\ fx.pc = "out"
    /\ fx.in.explicitType = "undef"
    /\ fx.in.conversationAgentType = "drive"
    /\ fx.in.topType = "search"
    /\ fx.in.topScore > 0
    /\ fx.in.confident
    /\ fx.out.route_to = "search"
    /\ fx.out.source = "pattern"

\* ------------------------------------------------------------------------
\* Specification SpecClassifier: routeToAgent with callLlmRouter behind it
\* ------------------------------------------------------------------------
\* what the classifier's backend does with the request: fetch throws, the
\* status is not OK, reading the body throws, the content is empty, the
\* content holds no {...}, JSON.parse throws on it, or an object is parsed
ClassifierResponses ==
    {"fetchThrows", "notOk", "bodyThrows", "noContent", "noJson",
     "parseThrows", "parsed"}

\* mutant of callLlmRouter: no try/catch around the request and the parsing
callLlmRouterNoCatch(apiKey, response, route_to) ==
    IF ~apiKey
    THEN [raised |-> FALSE, decision |-> "null"]
    ELSE IF response \in {"fetchThrows", "bodyThrows", "parseThrows"}
    THEN [raised |-> TRUE, decision |-> "null"]
    ELSE IF response # "parsed"
    THEN [raised |-> FALSE, decision |-> "null"]
    ELSE IF route_to \notin AgentTypes
    THEN [raised |-> FALSE, decision |-> "null"]
    ELSE [raised |-> FALSE, decision |-> route_to]

\* callLlmRouter: null without an API key, null when the request or the
\* parsing throws (caught), when the status is not OK, when there is no
\* content or no JSON object in it, and when route_to is not an agent type;
\* the parsed type otherwise
callLlmRouter(apiKey, response, route_to) ==
    IF ~apiKey
    THEN [raised |-> FALSE, decision |-> "null"]
    ELSE IF response \in {"fetchThrows", "bodyThrows", "parseThrows"}
    THEN [raised |-> FALSE, decision |-> "null"]
    ELSE IF response = "notOk"
    THEN [raised |-> FALSE, decision |-> "null"]
    ELSE IF response \in {"noContent", "noJson"}
    THEN [raised |-> FALSE, decision |-> "null"]
    ELSE IF route_to \notin AgentTypes
    THEN [raised |-> FALSE, decision |-> "null"]
    ELSE [raised |-> FALSE, decision |-> route_to]

ClassifierInputs ==
    [explicitType : ExplicitTypes,
     conversationAgentType : OptionalAgentTypes,
     topType : AgentTypes,
     topScore : 0..MaxPatternScore,
     confident : BOOLEAN,
     apiKey : BOOLEAN,
     response : ClassifierResponses,
     route_to : LlmStepTypes]

\* routeToAgent with the classifier's call spelled out: an error leaving
\* callLlmRouter leaves routeToAgent, which awaits it outside any try
routeWithClassifier(in) ==
    LET r == callLlmRouter(in.apiKey, in.response, in.route_to)
        d == routeToAgent(in.explicitType, in.conversationAgentType,
                          in.topType, in.topScore, in.confident, r.decision)
    IN IF d.classified /\ r.raised
       THEN [raised |-> TRUE, decision |-> NoDecision]
       ELSE [raised |-> FALSE, decision |-> d]

InitClassifier ==
    /\ tp = generateTaskPlan(<<"drive">>)
    /\ tx = TxIdle
    /\ InitService
    /\ fx \in [pc : {"in"}, in : ClassifierInputs,
               out : {[raised |-> FALSE, decision |-> NoDecision]}]

ClassifyCall ==
    /\ fx.pc = "in"
    /\ fx' = [fx EXCEPT !.pc = "out", !.out = routeWithClassifier(fx.in)]
    /\ UNCHANGED <<trackerVars, serviceVars>>

SpecClassifier == InitClassifier /\ [][ClassifyCall]_vars

\* C27: routeToAgent never raises; when the classifier was called and is
\* unconfigured, answers with a status that is not OK, throws, answers
\* something unparseable or names a type that is no agent type, the
\* decision is the top pattern type with source pattern if its score is
\* above 0, and else drive with source default and confidence 0.2.
C27_ClassifierFailureFallsBack ==
    fx.pc = "out"
        => /\ ~fx.out.raised
           /\ (/\ fx.out.decision.classified
               /\ \/ ~fx.in.apiKey
                  \/ fx.in.response # "parsed"
                  \/ fx.in.route_to \notin {"drive", "document", "search"})
                 => IF fx.in.topScore > 0
                    THEN /\ fx.out.decision.route_to = fx.in.topType
                         /\ fx.out.decision.source = "pattern"
                    ELSE /\ fx.out.decision.route_to = "drive"
                         /\ fx.out.decision.source = "default"
                         /\ fx.out.decision.confidence = "0.2"

\* C27 witness: the classifier threw while parsing for a message that
\* matched no pattern, and the router answered with the default
C27_Witness ==
    /\ fx.pc = "out"
    /\ fx.in.apiKey
    /\ fx.in.response = "parseThrows"
    /\ fx.in.topScore = 0
    /\ fx.out.decision.classified
    /\ fx.out.decision.route_to = "drive"
    /\ fx.out.decision.source = "default"

\* ------------------------------------------------------------------------
\* Specification SpecLoop: BaseAgent.runAgentLoop, one run
\* ------------------------------------------------------------------------
MaxCallsPerResponse == 2

\* the tool_calls of one model response, in request order, each given as
\* what its arguments string is for JSON.parse: the text of an object, no
\* JSON at all, or the JSON text null; the id of a call is its position
ToolCallLists ==
    UNION {[1..n -> {"object", "unparseable", "null"}] :
              n \in 1..MaxCallsPerResponse}

\* try { args = JSON.parse(argsStr) } catch { args = {} }
ParseArguments(argText) == IF argText = "unparseable" THEN "{}" ELSE argText

\* args.userId = context.userId, outside the try: a TypeError when args is
\* null
AssignUserIdThrows(args) == args = "null"

\* the GatewayDecision checkToolPermission returns to the loop for each of
\* its verdicts (allowed, approval, blocked); a request for approval
\* carries a new approval id
GatewayDecisionOf(verdict, issued) ==
    [allowed |-> verdict = "allowed",
     requiresApproval |-> verdict = "approval",
     approvalId |-> IF verdict = "approval" THEN issued + 1 ELSE 0]

NoCall ==
    [id |-> 0, argText |-> "none", decision |-> "none", outcome |-> "none",
     approvalId |-> 0, isError |-> FALSE]

\* the body of the for loop for one requested call: the ToolCall it records
\* and the approval id it pushes (0: none), or the error that leaves it
LoopBody(id, argText, d, toolOutcome) ==
    LET args == ParseArguments(argText) IN
    IF AssignUserIdThrows(args)
    THEN [raised |-> TRUE, pushed |-> 0, call |-> NoCall]
    ELSE [raised |-> FALSE,
          pushed |-> IF ~d.allowed /\ d.requiresApproval
                     THEN d.approvalId ELSE 0,
          call |-> [id |-> id, argText |-> argText,
                    decision |-> IF d.allowed THEN "allowed"
                                 ELSE IF d.requiresApproval THEN "approval"
                                 ELSE "blocked",
                    approvalId |-> d.approvalId,
                    outcome |-> IF LoopInvokes(d) THEN toolOutcome
                                ELSE "none",
                    isError |-> IF ~d.allowed /\ d.requiresApproval
                                THEN FALSE
                                ELSE IF ~d.allowed THEN TRUE
                                ELSE toolOutcome # "ok"]]

\* a run before its first iteration. iteration, allToolCalls, messages and
\* pendingApprovals are the loop's variables: the lists are kept as their
\* length (nToolCalls, nToolMessages, nPendingApprovals) and their last
\* element (lastCall, lastMessage: the tool_call_id of the last tool
\* message, lastPushed: the approval id pushed by the last pass, 0 if none);
\* req are the calls of the current response the for loop has still to
\* do, of reqLen requested; the rest is history: the model calls made,
\* whether each of them asked for tool calls, the tool calls requested and
\* the approvals the gateway issued so far, and the error that left the
\* loop
LoopStart ==
    [pc |-> "llm", iteration |-> 0, llmCalls |-> 0, allAskedTools |-> TRUE,
     req |-> <<>>, reqLen |-> 0,
     nRequested |-> 0, nIssued |-> 0,
     nToolCalls |-> 0, nToolMessages |-> 0, nPendingApprovals |-> 0,
     lastCall |-> NoCall, lastMessage |-> 0, lastPushed |-> 0,
     content |-> "none", raised |-> FALSE, error |-> "none"]

InitLoop ==
    /\ tp = generateTaskPlan(<<"drive">>)
    /\ tx = TxIdle
    /\ InitService
    /\ fx = LoopStart

\* while (iteration < MAX_TOOL_CALLS_PER_TURN): callLlm throws
LoopLlmThrows ==
    /\ fx.pc = "llm"
    /\ fx.iteration < MAX_TOOL_CALLS_PER_TURN
    /\ fx' = [fx EXCEPT !.pc = "done", !.iteration = @ + 1,
                        !.llmCalls = @ + 1, !.allAskedTools = FALSE,
                        !.raised = TRUE, !.error = "callLlm"]
    /\ UNCHANGED <<trackerVars, serviceVars>>

\* the response has no choice, or its message requests no tool call: the
\* loop returns
LoopLlmFinal(content) ==
    /\ fx.pc = "llm"
    /\ fx.iteration < MAX_TOOL_CALLS_PER_TURN
    /\ fx' = [fx EXCEPT !.pc = "done", !.iteration = @ + 1,
                        !.llmCalls = @ + 1, !.allAskedTools = FALSE,
                        !.content = content]
    /\ UNCHANGED <<trackerVars, serviceVars>>

\* the response requests tool calls: the for loop starts
LoopLlmTools(toolCalls) ==
    /\ fx.pc = "llm"
    /\ fx.iteration < MAX_TOOL_CALLS_PER_TURN
    /\ fx' = [fx EXCEPT !.pc = "tools", !.iteration = @ + 1,
                        !.llmCalls = @ + 1,
                        !.req = toolCalls, !.reqLen = Len(toolCalls),
                        !.lastCall = NoCall, !.lastMessage = 0,
                        !.lastPushed = 0,
                        !.nRequested = @ + Len(toolCalls)]
    /\ UNCHANGED <<trackerVars, serviceVars>>

\* one pass of the for loop, for the next requested call
LoopTool(verdict, toolOutcome) ==
    /\ fx.pc = "tools"
    /\ toolOutcome = "ok" \/ verdict = "allowed"
    /\ LET id == fx.reqLen - Len(fx.req) + 1
           b == LoopBody(id, Head(fx.req),
                         GatewayDecisionOf(verdict, fx.nIssued), toolOutcome)
       IN fx' = IF b.raised
                THEN [fx EXCEPT !.pc = "done", !.raised = TRUE,
                                !.error = "TypeError"]
                ELSE [fx EXCEPT
                        !.pc = IF Len(fx.req) = 1 THEN "llm" ELSE "tools",
                        !.req = Tail(@),
                        !.nIssued = IF verdict = "approval" THEN @ + 1
                                    ELSE @,
                        !.lastCall = b.call,
                        !.lastMessage = id,
                        !.lastPushed = b.pushed,
                        !.nToolCalls = @ + 1,
                        !.nToolMessages = @ + 1,
                        !.nPendingApprovals = IF b.pushed # 0
                                              THEN @ + 1 ELSE @]
    /\ UNCHANGED <<trackerVars, serviceVars>>

\* the while condition fails: the operation-limit message is returned
LoopLimit ==
    /\ fx.pc = "llm"
    /\ fx.iteration >= MAX_TOOL_CALLS_PER_TURN
    /\ fx' = [fx EXCEPT !.pc = "done", !.content = "limit"]
    /\ UNCHANGED <<trackerVars, serviceVars>>

NextLoop ==
    \/ LoopLlmThrows
    \/ \E content \in {"empty", "final"} : LoopLlmFinal(content)
    \/ \E toolCalls \in ToolCallLists : LoopLlmTools(toolCalls)
    \/ \E verdict \in {"allowed", "approval", "blocked"}, o \in ToolOutcomes :
          LoopTool(verdict, o)
    \/ LoopLimit

SpecLoop == InitLoop /\ [][NextLoop]_vars

\* C28: a run makes at most MAX_TOOL_CALLS_PER_TURN model calls, and when
\* every model call asked for tool calls it ends by returning the
\* operation-limit message with all tool calls and pending approvals of the
\* run, not by raising.
C28_CapReturnsLimitMessage ==
    /\ fx.llmCalls <= MAX_TOOL_CALLS_PER_TURN
    /\ (fx.pc = "done" /\ fx.allAskedTools)
          => /\ ~fx.raised
             /\ fx.content = "limit"
             /\ fx.llmCalls = MAX_TOOL_CALLS_PER_TURN
             /\ fx.nToolCalls = fx.nRequested
             /\ fx.nPendingApprovals = fx.nIssued

\* C29: a tool call that fails (arguments that do not parse or do not parse
\* to an object, a block by the gateway, an error result, an exception of
\* the tool interface) is recorded as a tool result flagged as an error,
\* and the loop goes on without raising.
C29_ToolFailureIsCaptured ==
    /\ fx.error # "TypeError"
    /\ (\/ fx.lastCall.argText \in {"unparseable", "null"}
        \/ fx.lastCall.decision = "blocked"
        \/ fx.lastCall.outcome \in {"error", "throw"})
          => fx.lastCall.isError

\* C30: every requested tool call gets exactly one ToolCall and exactly one
\* tool message, in request order; a call that needs approval is recorded
\* with isError false and exactly one pending approval that carries the
\* gateway's approval id, a blocked call with isError true and no pending
\* approval.
C30_OneRecordPerRequestedCall ==
    /\ fx.pc \in {"llm", "done"} => /\ fx.nToolCalls = fx.nRequested
                                   /\ fx.nToolMessages = fx.nRequested
    /\ fx.lastCall # NoCall => /\ fx.lastCall.id = fx.reqLen - Len(fx.req)
                               /\ fx.lastMessage = fx.lastCall.id
    /\ fx.nPendingApprovals = fx.nIssued
    /\ fx.lastCall.decision = "approval"
          => /\ ~fx.lastCall.isError
             /\ fx.lastPushed = fx.lastCall.approvalId
             /\ fx.lastPushed # 0
    /\ fx.lastCall.decision = "blocked"
          => /\ fx.lastCall.isError
             /\ fx.lastPushed = 0

\* the message of the list passed in that the k-th message of the list
\* left was, the dropped messages put back after the first one
BeforeDrop(out) == <<Head(out.messages)>> \o out.dropped \o Tail(out.messages)

\* C31: compressMessagesIfNeeded neither changes nor removes the message at
\* index 0 and the KEEP_RECENT most recent messages, leaves at least
\* min(original length, KEEP_RECENT + 1) messages, shrinks only tool
\* messages older than the KEEP_RECENT most recent, and drops only the
\* oldest messages after the first one.
C31_CompressionFrame ==
    fx.pc \in {"once", "twice"}
        => LET in == fx.in
               out == fx.once.messages
               n == Len(in)
               all == BeforeDrop(fx.once)
               least == IF n < KEEP_RECENT + 1 THEN n ELSE KEEP_RECENT + 1
           IN /\ Len(out) >= least
              /\ out[1] = in[1]
              /\ \A k \in 0..(KEEP_RECENT - 1) :
                    k < n - 1 => out[Len(out) - k] = in[n - k]
              /\ Len(all) = n
              /\ \A k \in 1..n :
                    all[k] # in[k]
                        => /\ in[k].role = "tool"
                           /\ k > 1
                           /\ k <= n - KEEP_RECENT
                           /\ all[k] = [in[k] EXCEPT !.len = all[k].len,
                                                     !.cut = TRUE]
                           /\ all[k].len < in[k].len

\* C31 witness: an old tool result was shrunk and the oldest message after
\* the system message was dropped
C31_Witness ==
    /\ fx.pc = "once"
    /\ Len(fx.once.dropped) = 1
    /\ Len(fx.once.messages) = KEEP_RECENT + 1
    /\ fx.once.dropped[1].cut
    /\ fx.in[2].role = "tool"

\* C32: when compressMessagesIfNeeded returns, the estimated size of the
\* list is at or under the cap or at most KEEP_RECENT + 1 messages are
\* left; and if a message was dropped, every tool message older than the
\* KEEP_RECENT most recent of the list passed in, with more characters than
\* the shrink threshold, was shrunk before.
C32_UnderCapOrMinimalAndShrinkFirst ==
    fx.pc \in {"once", "twice"}
        => LET out == fx.once.messages
               n == Len(fx.in)
               all == BeforeDrop(fx.once)
           IN /\ \/ estimateMessageChars(out) <= MAX_CONTEXT_CHARS
                 \/ Len(out) <= KEEP_RECENT + 1
              /\ fx.once.dropped # <<>>
                    => \A k \in 2..(n - KEEP_RECENT) :
                          (fx.in[k].role = "tool" /\ fx.in[k].len > ShrinkOver)
                              => /\ all[k].cut
                                 /\ all[k].len <= ShrinkOver

\* C32 witness: the list was over the cap after the old tool result had
\* been shrunk, and a message was dropped
C32_Witness ==
    /\ fx.pc = "once"
    /\ fx.once.dropped # <<>>
    /\ fx.in[2].role = "tool"
    /\ fx.in[2].len > ShrinkOver
    /\ fx.once.dropped[1].len <= ShrinkOver
    /\ estimateMessageChars(fx.once.messages) > MAX_CONTEXT_CHARS

\* C33: compressMessagesIfNeeded stops as soon as the estimate of the list
\* is at or under the cap: the total it tracks is the estimate of the list
\* it has, so nothing is shrunk or dropped from a list whose estimate is at
\* or under the cap.
C33_TrackedTotalIsTheEstimate ==
    fx.pc \in {"once", "twice"}
        => fx.once.total = estimateMessageChars(fx.once.messages)

\* the list is well formed for the model backend: every tool message comes
\* after an assistant message with tool calls, with only tool messages in
\* between
ToolResultsFollowCalls(messages) ==
    \A k \in 1..Len(messages) :
        messages[k].role = "tool"
            => \E j \in 1..(k - 1) :
                  /\ messages[j].role = "assistant"
                  /\ messages[j].tc > 0
                  /\ \A i \in (j + 1)..(k - 1) : messages[i].role = "tool"

\* C37: after compressMessagesIfNeeded every tool message left in the list
\* is still preceded by the assistant message whose tool_calls requested
\* it.
C37_ToolResultsKeepTheirCall ==
    (fx.pc \in {"once", "twice"} /\ ToolResultsFollowCalls(fx.in))
        => ToolResultsFollowCalls(fx.once.messages)

\* how far a step status is on the way pending, in-progress, terminal
StatusRank(status) ==
    IF status = "pending" THEN 0 ELSE IF status = "in-progress" THEN 1 ELSE 2

\* C34: from one chat turn to the next the stored plan of a conversation is
\* replaced by a newly generated plan only when it is absent or complete;
\* while it is incomplete it keeps its steps, no step's stored status moves
\* backward and no terminal status changes.
C34_StoredPlanOnlyMovesForward ==
    [][PlanOpen(conv.plan)
         => /\ Len(conv'.plan.steps) = Len(conv.plan.steps)
            /\ \A k \in StepIds(conv.plan) :
                  LET old == conv.plan.steps[k]
                      new == conv'.plan.steps[k]
                  IN /\ new.agentType = old.agentType
                     /\ StatusRank(new.status) >= StatusRank(old.status)
                     /\ old.status \in TerminalStatuses
                           => new.status = old.status]_vars

\* C34 witness: a turn went on with the stored incomplete plan, whose
\* first step an earlier turn had finished, and stored it with its second
\* step finished
C34_Witness ==
    /\ last.ev = "chatDone"
    /\ last.shouldPlan = "skipped"
    /\ Len(conv.plan.steps) = 2
    /\ conv.plan.steps[1].status = "completed"
    /\ conv.plan.steps[2].status = "completed"
    /\ conv.plan.isComplete

\* Specification SpecOrchestratorFair: executePlan is called again and
\* again on the plan the last call returned, and every agent run returns or
\* throws
SpecOrchestratorFair == SpecOrchestrator /\ WF_vars(NextOrchestrator)

\* C35: every executePlan call ends; a call in which no step's run came
\* back with pending approvals returns a plan whose steps are all
\* completed, failed or skipped, with isComplete true; and with repeated
\* calls the plan gets to isComplete.
C35_ExecutePlanEndsAndCompletes ==
    /\ [](tx.pc # "idle" => <>(tx.pc = "idle"))
    /\ []((tx.pc = "idle" /\ tx.entry # NoPlan /\ tx.approvals = {})
            => /\ tp.isComplete
               /\ \A k \in StepIds(tp) :
                     tp.steps[k].status \in TerminalStatuses)
    /\ <>tp.isComplete

\* C35 witness: a call without approvals ran two steps, one of which threw,
\* and returned a complete plan
C35_Witness ==
    /\ tx.pc = "idle"
    /\ tx.entry # NoPlan
    /\ tx.approvals = {}
    /\ Len(tx.ran) = 2
    /\ tx.threw # {}
    /\ tp.isComplete

\* C36: every approval request the gateway created during a turn is among
\* the pending approvals executePlan returns for the response, and pauses
\* the orchestration; every tool call executed during the turn is among the
\* tool calls returned for the assistant message; also when the run that
\* made them threw afterwards.
C36_NothingOfARunIsLost ==
    tx.pc = "idle"
        => /\ tx.created \subseteq tx.approvals
           /\ tx.created # {} => tx.paused # 0
           /\ tx.executed \subseteq tx.toolCalls

\* ------------------------------------------------------------------------
\* The message list and the plan of a chat turn: what chat appends and
\* saves, and what executePlan builds from them for each step
\* ------------------------------------------------------------------------
MaxTurns == 2

\* a message of the list: where it was made ("chat" for the two messages
\* chat pushes, "summary" and "step" for the two the orchestrator
\* synthesizes), for which turn and step, and whether it carries toolCalls
userMessage(turn) ==
    [role |-> "user", origin |-> "chat", turn |-> turn, step |-> 0,
     toolCalls |-> FALSE]

\* toolCalls: toolCalls.length > 0 ? toolCalls : undefined
assistantMessage(turn, hasToolCalls) ==
    [role |-> "assistant", origin |-> "chat", turn |-> turn, step |-> 0,
     toolCalls |-> hasToolCalls]

\* mutant of buildStepMessages: the two messages are pushed onto the list
\* passed in
buildStepMessagesNoCopy(originalMessages, turn, stepId, previousResults) ==
    LET summary == [role |-> "assistant", origin |-> "summary",
                    turn |-> turn, step |-> stepId, toolCalls |-> FALSE]
        instruction == [role |-> "user", origin |-> "step", turn |-> turn,
                        step |-> stepId, toolCalls |-> FALSE]
        withSummary == IF previousResults > 0
                       THEN Append(originalMessages, summary)
                       ELSE originalMessages
        messages == Append(withSummary, instruction)
    IN [stepMessages |-> messages, originalMessages |-> messages]

\* buildStepMessages: a copy of the list passed in, then the summary of the
\* previous steps when there are any, then the instruction of this step;
\* the list returned, and the list passed in as read after the call
buildStepMessages(originalMessages, turn, stepId, previousResults) ==
    LET summary == [role |-> "assistant", origin |-> "summary",
                    turn |-> turn, step |-> stepId, toolCalls |-> FALSE]
        instruction == [role |-> "user", origin |-> "step", turn |-> turn,
                        step |-> stepId, toolCalls |-> FALSE]
        copy == originalMessages
        withSummary == IF previousResults > 0
                       THEN Append(copy, summary)
                       ELSE copy
        messages == Append(withSummary, instruction)
    IN [stepMessages |-> messages, originalMessages |-> originalMessages]

\* deepClonePlan: a plan with the fields of the plan passed in and a copy of
\* each of its steps, so that no step object is shared with it
deepClonePlan(plan) == [plan |-> plan, sharesSteps |-> FALSE]

\* buildMemoryState, as BaseAgent.run calls it with the list it was given:
\* the working-memory view is assembled without changing that list; this is
\* the list as read after the run
buildMemoryState(messages) == messages

HistoryIdle ==
    [pc |-> "idle", turn |-> 0, stored |-> <<>>, messages |-> <<>>,
     planIn |-> NoPlan, entry |-> NoPlan, current |-> NoPlan,
     sharesSteps |-> FALSE, results |-> 0, entryMessages |-> <<>>,
     stepMessages |-> <<>>]

\* no turn yet: stored is the saved message list of the conversation,
\* messages the list of the loaded document during a turn; planIn is the
\* plan object handed to executePlan, entry and entryMessages what the plan
\* and the list were when executePlan was entered, current its currentPlan,
\* and stepMessages the list built for the last step
InitHistory ==
    /\ tp = generateTaskPlan(<<"drive">>)
    /\ tx = TxIdle
    /\ InitService
    /\ fx = HistoryIdle

\* chat up to the first agent run: the user message is pushed, and a plan of
\* n steps (none for 0) is run by the orchestrator if it needs
\* orchestration and by a single agent otherwise
HistoryBegin(n) ==
    /\ fx.pc = "idle"
    /\ fx.turn < MaxTurns
    /\ LET plan == generateTaskPlan([i \in 1..n |-> "drive"])
           pushed == Append(fx.stored, userMessage(fx.turn + 1))
           clone == deepClonePlan(plan)
       IN fx' = IF PlanOpen(plan) /\ needsOrchestration(plan)
                THEN [fx EXCEPT !.pc = "loop", !.turn = @ + 1,
                                !.messages = pushed,
                                !.planIn = plan, !.entry = plan,
                                !.current = clone.plan,
                                !.sharesSteps = clone.sharesSteps,
                                !.results = 0,
                                !.entryMessages = pushed,
                                !.stepMessages = <<>>]
                ELSE [fx EXCEPT !.pc = "single", !.turn = @ + 1,
                                !.messages = pushed,
                                !.planIn = NoPlan, !.entry = NoPlan,
                                !.current = IF PlanOpen(plan)
                                            THEN startCurrentStep(plan)
                                            ELSE plan,
                                !.sharesSteps = FALSE,
                                !.results = 0,
                                !.entryMessages = <<>>,
                                !.stepMessages = <<>>]
    /\ UNCHANGED <<trackerVars, serviceVars>>

\* one pass of executePlan's loop on a pending step: start it, build its
\* messages, run the agent on them, and complete the step (breaking out of
\* the loop when the run left approvals) or fail it when the run threw
HistoryStep(outcome) ==
    /\ fx.pc = "loop"
    /\ LET started == startCurrentStep(fx.current)
           b == buildStepMessages(fx.messages, fx.turn, started.currentStep,
                                  fx.results)
           done == IF outcome = "threw"
                   THEN failCurrentStep(started, "error")
                   ELSE completeCurrentStep(started, "result")
       IN fx' = [fx EXCEPT
                   !.current = done,
                   !.planIn = IF fx.sharesSteps
                              THEN PlanPassedInAfter(@, done) ELSE @,
                   !.stepMessages = buildMemoryState(b.stepMessages),
                   !.messages = b.originalMessages,
                   !.results = @ + 1,
                   !.pc = IF outcome = "approval" \/ done.isComplete
                          THEN "finish" ELSE "loop"]
    /\ UNCHANGED <<trackerVars, serviceVars>>

\* the single agent run of a turn without orchestration: it returns, or it
\* throws and the error leaves chat before anything is saved
HistorySingle(returns) ==
    /\ fx.pc = "single"
    /\ fx' = IF returns
             THEN [fx EXCEPT !.pc = "finish",
                             !.messages = buildMemoryState(@)]
             ELSE [fx EXCEPT !.pc = "idle", !.messages = <<>>]
    /\ UNCHANGED <<trackerVars, serviceVars>>

\* chat's end: the assistant message is pushed and the conversation saved
HistoryFinish(hasToolCalls) ==
    /\ fx.pc = "finish"
    /\ LET pushed == Append(fx.messages,
                            assistantMessage(fx.turn, hasToolCalls))
       IN fx' = [fx EXCEPT !.pc = "idle", !.messages = <<>>,
                           !.stored = pushed]
    /\ UNCHANGED <<trackerVars, serviceVars>>

NextHistory ==
    \/ \E n \in 0..MaxPlanSteps : HistoryBegin(n)
    \/ \E outcome \in {"returned", "approval", "threw"} : HistoryStep(outcome)
    \/ \E returns \in BOOLEAN : HistorySingle(returns)
    \/ \E hasToolCalls \in BOOLEAN : HistoryFinish(hasToolCalls)

SpecHistory == InitHistory /\ [][NextHistory]_vars

\* C39: a turn that is saved appends exactly the user message and then one
\* assistant message to the stored list and leaves the earlier messages as
\* they were; no summary or step instruction of the orchestrator is ever
\* stored; and after each pass of executePlan's loop the plan and the
\* message list it was given are what they were when it was entered.
C39_TurnAppendsTwoMessages ==
    [][/\ fx'.stored # fx.stored
           => /\ Len(fx'.stored) = Len(fx.stored) + 2
              /\ SubSeq(fx'.stored, 1, Len(fx.stored)) = fx.stored
              /\ fx'.stored[Len(fx.stored) + 1] = userMessage(fx.turn)
              /\ fx'.stored[Len(fx.stored) + 2].role = "assistant"
              /\ \A k \in 1..Len(fx'.stored) : fx'.stored[k].origin = "chat"
       /\ fx.pc = "loop"
           => /\ fx'.planIn = fx.entry
              /\ fx'.messages = fx.entryMessages]_vars

C39_Witness ==
    /\ fx.pc = "idle"
    /\ fx.turn = 2
    /\ Len(fx.stored) = 4
    /\ Len(fx.stepMessages) = 5
    /\ fx.stepMessages[4].origin = "summary"
    /\ fx.stepMessages[5].origin = "step"

\* ------------------------------------------------------------------------
\* McpClientService: concurrent listTools and callTool calls, each running
\* from one await to the next
\* ------------------------------------------------------------------------
MaxCallers == 2

Callers == 1..MaxCallers

\* a new service: no client, no server, no cached tools. conn is the state
\* of this.client ("none" for null, "connecting" while the Promise.all of
\* connect is pending, "connected", "closing" while close is pending), pc
\* and op where each caller is and in which method, dpc whether a disconnect
\* call is under way; created counts the client/server pairs made since the
\* service was new or last disconnected, early says that a request went out
\* on a client whose connect was still pending, and ev is the last event
McpIdle ==
    [conn |-> "none", cached |-> FALSE, created |-> 0, early |-> FALSE,
     pc |-> [p \in Callers |-> "idle"], op |-> [p \in Callers |-> "none"],
     dpc |-> "idle", ev |-> "none"]

InitMcp ==
    /\ tp = generateTaskPlan(<<"drive">>)
    /\ tx = TxIdle
    /\ InitService
    /\ fx = McpIdle

\* connect up to its await: nothing when this.client is set; else the
\* server and the client are created and their connects started
connect(s) ==
    IF s.conn # "none"
    THEN [s |-> s, awaits |-> FALSE]
    ELSE [s |-> [s EXCEPT !.conn = "connecting", !.created = @ + 1],
          awaits |-> TRUE]

\* listTools or callTool is called and runs to its first await: listTools
\* returns the cached tools when there are any; else connect runs, and the
\* caller waits for the Promise.all or goes on at once
McpBegin(p, method) ==
    /\ fx.pc[p] = "idle"
    /\ fx' = IF method = "listTools" /\ fx.cached
             THEN [fx EXCEPT !.ev = "cached"]
             ELSE LET c == connect(fx) IN
                  [c.s EXCEPT !.pc[p] = IF c.awaits THEN "connecting"
                                        ELSE "ready",
                              !.op[p] = method,
                              !.ev = "began"]
    /\ UNCHANGED <<trackerVars, serviceVars>>

\* the client's and the server's connect have both resolved
McpConnected(p) ==
    /\ fx.pc[p] = "connecting"
    /\ fx' = [fx EXCEPT !.pc[p] = "ready",
                        !.conn = IF @ = "connecting" THEN "connected" ELSE @,
                        !.ev = "connected"]
    /\ UNCHANGED <<trackerVars, serviceVars>>

\* after await this.connect(): this.client!.listTools() or callTool(...).
\* With no client the call throws; on a client that is not connected the
\* client either refuses the request or sends it (sent says which)
McpRequest(p, sent) ==
    /\ fx.pc[p] = "ready"
    /\ fx.conn = "connected" => sent
    /\ fx' = IF fx.conn = "none" \/ ~sent
             THEN [fx EXCEPT !.pc[p] = "idle", !.op[p] = "none",
                             !.ev = "threw"]
             ELSE [fx EXCEPT !.pc[p] = "waiting",
                             !.early = @ \/ fx.conn = "connecting",
                             !.ev = "sent"]
    /\ UNCHANGED <<trackerVars, serviceVars>>

\* the answer arrives: listTools caches the tools and returns them,
\* callTool returns the result
McpResponse(p) ==
    /\ fx.pc[p] = "waiting"
    /\ fx' = [fx EXCEPT !.pc[p] = "idle", !.op[p] = "none",
                        !.cached = IF fx.op[p] = "listTools" THEN TRUE ELSE @,
                        !.ev = "returned"]
    /\ UNCHANGED <<trackerVars, serviceVars>>

McpInvalidateCache ==
    /\ fx' = [fx EXCEPT !.cached = FALSE, !.ev = "invalidated"]
    /\ UNCHANGED <<trackerVars, serviceVars>>

\* disconnect up to its await: with a client, close is called on it
McpDisconnectClose ==
    /\ fx.dpc = "idle"
    /\ fx.conn # "none"
    /\ fx' = [fx EXCEPT !.dpc = "closing", !.conn = "closing",
                        !.ev = "closing"]
    /\ UNCHANGED <<trackerVars, serviceVars>>

\* close has resolved: client, server and cached tools are set to null
McpDisconnectDone ==
    /\ fx.dpc = "closing"
    /\ fx' = [fx EXCEPT !.dpc = "idle", !.conn = "none", !.cached = FALSE,
                        !.created = 0, !.ev = "disconnected"]
    /\ UNCHANGED <<trackerVars, serviceVars>>

NextMcp ==
    \/ \E p \in Callers, method \in {"listTools", "callTool"} :
          McpBegin(p, method)
    \/ \E p \in Callers : McpConnected(p)
    \/ \E p \in Callers, sent \in BOOLEAN : McpRequest(p, sent)
    \/ \E p \in Callers : McpResponse(p)
    \/ McpInvalidateCache
    \/ McpDisconnectClose
    \/ McpDisconnectDone

SpecMcp == InitMcp /\ [][NextMcp]_vars

\* C40: whatever the interleaving of listTools and callTool calls, no
\* request goes out on a client whose connect is still pending, at most one
\* client/server pair is created, and once the tools are cached they stay
\* cached, and listTools returns them without a request, until
\* invalidateCache or disconnect.
C40_ConnectBeforeAnyRequest ==
    [][/\ ~fx'.early
       /\ fx'.created <= 1
       /\ (fx.cached /\ ~fx'.cached)
            => fx'.ev \in {"invalidated", "disconnected"}
       /\ (fx.cached /\ fx'.ev = "began")
            => \E p \in Callers : fx'.op[p] = "callTool" /\ fx.op[p] = "none"]_vars

====
